---- MODULE Spec2Model ----
(***************************************************************************)
(* Rope physics with tangle formation and braid tracking.                  *)
(*                                                                         *)
(* The model follows PhysicsWorld.step and the objects it drives           *)
(* (TangleConstraint, the cooldown map, the intersection sets) and the     *)
(* crossing pipeline behind the crossing callback (Simulation.             *)
(* handleCrossing, CrossingDetector.onCrossing).                           *)
(*                                                                         *)
(* Particle positions are floating-point vectors moved by the solver; the  *)
(* model does not integrate them.  What the code reads from the positions  *)
(* in one tick (which segment pairs intersect, the cross product of their  *)
(* directions, the closest particles, the local stretch, the separation of *)
(* a tangle's two particles) is the tick's "scene", chosen by \E from the  *)
(* scene set of the specification.  Lengths are kept in thousandths of a   *)
(* length unit, angles in milliradians, cross products in thousandths.     *)
(***************************************************************************)
EXTENDS Integers, Sequences, FiniteSets, TLC

(***************************************************************************)
(* Program constants                                                       *)
(***************************************************************************)
NumRopes == 3
solverIterations == 8
SKIP_SEGMENTS_FROM_START == 6
tangleCooldownFrames == 120
maxTanglesPerRopePair == 2
maxTotalTangles == 6
tangleTensionThreshold == 25000
MinLocalTension == 2000
MIN_WRAP_ANGLE == 785
MinWrapFloor == 524
SlackWrapLimit == 1047
maxWrapAngle == 6283
HalfPi == 1571
lockThreshold == 50000
maxDistance == 15000
minDistance == 2000
baseFriction == 300
SlackTension == 300
SlackLimit == 90
MaxCapstan == 3000
DecayTension == 500
GrowTension == 1000
GrowQuality == 500
maxIterations == 100
allowFreeCrossing == TRUE
ropeCollisionRadius == 1500
MinPushDistance == 10
crossingCooldown == 200
InverseMass == 20
damping == 30
bendStiffness == 200

(***************************************************************************)
(* Bounds of the model                                                     *)
(***************************************************************************)
NumSegments == 8
MaxCross == 3
MaxTicks == 2
MaxPullTicks == 4
MaxLog == 3
MaxNow == 500
MaxWord == 6
RopeSegments == 2
SegmentLength == 100
MaxPos == 800
MaxRopeCalls == 4
MaxKnotTicks == 3
MaxClampTicks == 12
MaxWorldTicks == 3

Ropes == 0 .. (NumRopes - 1)
Segments == 0 .. (NumSegments - 1)

Min(a, b) == IF a < b THEN a ELSE b
Max(a, b) == IF a > b THEN a ELSE b

(***************************************************************************)
(* Fixed-point arithmetic for Math.exp, Math.sin and Math.asin             *)
(***************************************************************************)
RECURSIVE ExpTerms(_, _, _, _)
ExpTerms(x, k, term, acc) ==
    IF term = 0 \/ k > 16 THEN acc
    ELSE LET next == (term * x) \div (1000 * k)
         IN  ExpTerms(x, k + 1, next, acc + next)

\* e^(x/1000) in thousandths, for 0 <= x <= 2000
ExpMilli(x) == ExpTerms(x, 1, 1000, 1000)

\* sin(a/1000) in thousandths, for 0 <= a <= HalfPi
SinMilli(a) ==
    LET a2 == (a * a) \div 1000
        t3 == (a * a2) \div 6000
        t5 == (t3 * a2) \div 20000
        t7 == (t5 * a2) \div 42000
        t9 == (t7 * a2) \div 72000
    IN  a - t3 + t5 - t7 + t9

RECURSIVE AsinSearch(_, _, _)
AsinSearch(lo, hi, c) ==
    IF lo >= hi THEN lo
    ELSE LET mid == (lo + hi + 1) \div 2
         IN  IF SinMilli(mid) <= c THEN AsinSearch(mid, hi, c)
             ELSE AsinSearch(lo, mid - 1, c)

\* asin(c/1000) in milliradians, for 0 <= c <= 1000
AsinMilli(c) == IF c >= 1000 THEN HalfPi ELSE AsinSearch(0, HalfPi, c)


(***************************************************************************)
(* Ropes, particles, segment-pair keys                                     *)
(***************************************************************************)
\* A particle is <<rope id, index in rope.particles>>; a rope of NumSegments
\* segments has the particles 0 .. NumSegments.
Particle(r, i) == <<r, i>>

ParticleCount == NumSegments + 1

\* The cooldown and intersection key `${ropeA.id}-${ropeB.id}-${segA}-${segB}`
Key(ropeA, ropeB, segA, segB) == <<ropeA, ropeB, segA, segB>>

\* PhysicsWorld's loops  for i .. for j = i + 1 ..  over this.ropes, in order
RopePairs ==
    LET RECURSIVE Build(_, _)
        Build(i, j) ==
            IF i >= NumRopes - 1 THEN << >>
            ELSE IF j >= NumRopes THEN Build(i + 1, i + 2)
            ELSE << <<i, j>> >> \o Build(i, j + 1)
    IN  Build(0, 1)

\* Rope.getSegments gives the indices 0 .. particles.length - 2; both detection
\* passes skip (continue) every segment with index < SKIP_SEGMENTS_FROM_START
ActiveSegs == {s \in Segments : ~(s < SKIP_SEGMENTS_FROM_START)}

ActiveCount == Cardinality(ActiveSegs)

\* The segment pairs the two nested loops (segA outer, segB inner) get past
\* the two skips with, in loop order
SegmentPairs ==
    [n \in 1 .. (ActiveCount * ActiveCount) |->
        <<SKIP_SEGMENTS_FROM_START + ((n - 1) \div ActiveCount),
          SKIP_SEGMENTS_FROM_START + ((n - 1) % ActiveCount)>>]

Keys == {Key(RopePairs[p][1], RopePairs[p][2], sa, sb) :
            p \in 1 .. Len(RopePairs), sa \in ActiveSegs, sb \in ActiveSegs}

(***************************************************************************)
(* The scene of one tick: what the code reads from the particle positions. *)
(*   X        keys of the segment pairs that Segment.segmentIntersection   *)
(*            reports as intersecting on the committed positions           *)
(*   cross    |dirA x dirB| of the intersecting pairs, thousandths         *)
(*   hub      the particle index the intersections lie closest to          *)
(*   tens     local stretch measured at the closest particles              *)
(*   gap      distance of the two closest particles at formation           *)
(*   stretch  (distance - restDistance) seen by TangleConstraint.solve     *)
(*   quality  |dirA x dirB| of the rope directions at a tangle             *)
(*   sep      committed distance of a tangle's particles (shouldBreak)     *)
(***************************************************************************)
Scene(X, cross, hub, tens, gap, stretch, quality, sep) ==
    [X |-> X, cross |-> cross, hub |-> hub, tens |-> tens, gap |-> gap,
     stretch |-> stretch, quality |-> quality, sep |-> sep]

(***************************************************************************)
(* TangleConstraint                                                        *)
(***************************************************************************)
\* constructor: restDistance clamped to [minDistance, maxDistance], wrapAngle
\* from options.initialWrapAngle, unlocked, slackFrames undefined (read as 0)
NewTangle(particleA, particleB, ropeA, ropeB, dist, initialWrapAngle) ==
    [particleA |-> particleA, particleB |-> particleB,
     ropeA |-> ropeA, ropeB |-> ropeB,
     restDistance |-> Max(minDistance, Min(dist, maxDistance)),
     wrapAngle |-> initialWrapAngle,
     tension |-> 0,
     isLocked |-> FALSE,
     slackFrames |-> 0]

\* getCapstanFriction: e^(baseFriction * wrapAngle), thousandths
getCapstanFriction(t) == ExpMilli((baseFriction * t.wrapAngle) \div 1000)

\* updateWrapAngle: the direction at a particle is zero when the particle is
\* the first or the last of its rope, so the cross product is 0 there.
RopeDirIsZero(p) == p[2] <= 0 \/ p[2] >= ParticleCount - 1

\* Faulty variant of updateWrapAngle: the wrap angle is not clamped
updateWrapAngleUnclamped(t, quality) ==
    LET cross == IF RopeDirIsZero(t.particleA) \/ RopeDirIsZero(t.particleB)
                 THEN 0 ELSE quality
    IN  IF t.tension > GrowTension /\ cross > GrowQuality
        THEN [t EXCEPT !.wrapAngle = @ + (t.tension * cross) \div 1000000]
        ELSE IF t.tension < DecayTension
        THEN [t EXCEPT !.wrapAngle = (@ * 995) \div 1000]
        ELSE t

updateWrapAngle(t, quality) ==
    LET cross == IF RopeDirIsZero(t.particleA) \/ RopeDirIsZero(t.particleB)
                 THEN 0 ELSE quality
    IN  IF t.tension > GrowTension /\ cross > GrowQuality
        THEN [t EXCEPT !.wrapAngle =
                 Min(maxWrapAngle, @ + (t.tension * cross) \div 1000000)]
        ELSE IF t.tension < DecayTension
        THEN [t EXCEPT !.wrapAngle = Max(MinWrapFloor, (@ * 995) \div 1000)]
        ELSE t

\* The tightening branch of solve (tension > 0 and not locked)
Tighten(t) ==
    LET capstanMultiplier == getCapstanFriction(t)
        tightenRate == (2 * t.tension * Min(capstanMultiplier, MaxCapstan)) \div 100000
    IN  [t EXCEPT !.restDistance = Max(minDistance, @ - tightenRate),
                  !.wrapAngle = Min(maxWrapAngle, @ + t.tension \div 1000),
                  !.isLocked = IF t.tension > lockThreshold THEN TRUE ELSE @]

\* Faulty variant of solve: the lock is recomputed from the tension on every
\* call instead of being latched.
solveRelock(t, distance, quality) ==
    IF distance < 1 THEN t
    ELSE LET t1 == [t EXCEPT !.tension = Max(0, distance - t.restDistance)]
             t2 == updateWrapAngle(t1, quality)
             t3 == IF t2.tension > 0 /\ ~t2.isLocked THEN Tighten(t2) ELSE t2
         IN  [t3 EXCEPT !.isLocked = t3.tension > lockThreshold]

\* solve, as far as it changes the constraint itself; the corrections it
\* applies to the two particles belong to the positions.
solve(t, distance, quality) ==
    IF distance < 1 THEN t
    ELSE LET t1 == [t EXCEPT !.tension = Max(0, distance - t.restDistance)]
             t2 == updateWrapAngle(t1, quality)
         IN  IF t2.tension > 0 /\ ~t2.isLocked THEN Tighten(t2) ELSE t2

\* The break distance shouldBreak compares the separation with
BreakDistance(t) ==
    LET capstanMultiplier == getCapstanFriction(t)
        base == IF t.isLocked
                THEN (maxDistance * Min(capstanMultiplier, MaxCapstan)) \div 1000
                ELSE (maxDistance * 3) \div 2
    IN  Min(base, maxDistance * 3)

\* Faulty variant of the slack test: the lock is not looked at
IsSlackLockedToo(t) == t.wrapAngle < SlackWrapLimit /\ t.tension < SlackTension

\* The condition of the slack rule in shouldBreak
IsSlack(t) ==
    ~t.isLocked /\ t.wrapAngle < SlackWrapLimit /\ t.tension < SlackTension

\* Faulty variant of shouldBreak: the slack rule fires on reaching the limit
\* instead of on exceeding it.
shouldBreakAtLimit(t, distance) ==
    IF IsSlack(t)
    THEN LET t1 == [t EXCEPT !.slackFrames = @ + 1]
         IN  IF t1.slackFrames >= SlackLimit
             THEN [tangle |-> t1, breaks |-> TRUE, slack |-> TRUE]
             ELSE [tangle |-> t1, breaks |-> distance > BreakDistance(t1),
                   slack |-> FALSE]
    ELSE LET t0 == [t EXCEPT !.slackFrames = 0]
         IN  [tangle |-> t0, breaks |-> distance > BreakDistance(t0),
              slack |-> FALSE]

\* shouldBreak: the constraint with its slack counter updated, and the verdict
shouldBreak(t, distance) ==
    IF IsSlack(t)
    THEN LET t1 == [t EXCEPT !.slackFrames = @ + 1]
         IN  IF t1.slackFrames > SlackLimit
             THEN [tangle |-> t1, breaks |-> TRUE, slack |-> TRUE]
             ELSE [tangle |-> t1, breaks |-> distance > BreakDistance(t1),
                   slack |-> FALSE]
    ELSE LET t0 == [t EXCEPT !.slackFrames = 0]
         IN  [tangle |-> t0, breaks |-> distance > BreakDistance(t0),
              slack |-> FALSE]


(***************************************************************************)
(* PhysicsWorld: the state a tick works on                                 *)
(*   tangles    this.tangleConstraints (array order)                       *)
(*   cooldowns  this.tangleCooldowns, a map key -> frames remaining        *)
(*   current    this.currentIntersections                                  *)
(*   previous   CrossingDetector.previousIntersections                     *)
(*   events     what the tick did, in order (bookkeeping of the model)     *)
(*   formed     the onTangleFormed calls of the tick                       *)
(*   broken     the onTangleBroken calls of the tick                       *)
(***************************************************************************)
Event(type, key) == [type |-> type, key |-> key]

\* findClosestParticle for a point on segment seg: the end of the segment on
\* the side of the scene's hub (a particle of another segment is closer only
\* when the rope folds back onto the point).
findClosestParticle(rope, seg, sc) ==
    Particle(rope, IF sc.hub <= seg THEN seg ELSE seg + 1)

\* measureLocalTension: the stretch of the one or two distance constraints
\* next to the particle
measureLocalTension(particle, sc) ==
    (IF particle[2] > 0 THEN sc.tens ELSE 0)
    + (IF particle[2] < NumSegments THEN sc.tens ELSE 0)

\* Faulty variant of areTangled: the two orientations are joined by "and"
areTangledBoth(tangles, pA, pB) ==
    \E i \in 1 .. Len(tangles) :
        /\ tangles[i].particleA = pA /\ tangles[i].particleB = pB
        /\ tangles[i].particleA = pB /\ tangles[i].particleB = pA

areTangled(tangles, pA, pB) ==
    \E i \in 1 .. Len(tangles) :
        \/ tangles[i].particleA = pA /\ tangles[i].particleB = pB
        \/ tangles[i].particleA = pB /\ tangles[i].particleB = pA

countTanglesBetweenRopes(tangles, ropeA, ropeB) ==
    Cardinality({i \in 1 .. Len(tangles) :
        \/ tangles[i].ropeA = ropeA /\ tangles[i].ropeB = ropeB
        \/ tangles[i].ropeA = ropeB /\ tangles[i].ropeB = ropeA})

\* Segment.segmentIntersection on the committed positions
Intersects(key, sc) == key \in sc.X

\* Faulty variant of the angle gate: the decay floor of the wrap angle (30
\* degrees) is taken for the minimum crossing angle.
BelowWrapFloor(crossingAngle) == crossingAngle < MinWrapFloor

\* The angle gate of detectRopePairTangles
BelowMinWrap(crossingAngle) == crossingAngle < MIN_WRAP_ANGLE

\* One pass of the inner loop body of detectRopePairTangles; a pair that is
\* passed over because its particles are tangled already is noted in events
TryFormTangle(w, ropeA, ropeB, segA, segB, sc) ==
    LET cooldownKey == Key(ropeA, ropeB, segA, segB)
        particleA == findClosestParticle(ropeA, segA, sc)
        particleB == findClosestParticle(ropeB, segB, sc)
        crossProduct == sc.cross
        crossingAngle == AsinMilli(Min(1000, crossProduct))
        tensionA == measureLocalTension(particleA, sc)
        tensionB == measureLocalTension(particleB, sc)
        tangleProbability == ((tensionA + tensionB) * crossProduct) \div 1000
    IN  IF segA \notin ActiveSegs \/ segB \notin ActiveSegs THEN w
        ELSE IF cooldownKey \in DOMAIN w.cooldowns THEN w
        ELSE IF ~Intersects(cooldownKey, sc) THEN w
        ELSE IF areTangled(w.tangles, particleA, particleB)
        THEN [w EXCEPT !.events = Append(@, Event("tangled", cooldownKey))]
        ELSE IF BelowMinWrap(crossingAngle) THEN w
        ELSE IF tensionA < MinLocalTension \/ tensionB < MinLocalTension THEN w
        ELSE IF tangleProbability > tangleTensionThreshold
        THEN [w EXCEPT
                !.cooldowns = [k \in DOMAIN w.cooldowns \cup {cooldownKey} |->
                                  IF k = cooldownKey THEN tangleCooldownFrames
                                  ELSE w.cooldowns[k]],
                !.tangles = Append(@, NewTangle(particleA, particleB, ropeA, ropeB,
                                                sc.gap, crossingAngle)),
                !.formed = Append(@, [key |-> cooldownKey,
                                      particleA |-> particleA,
                                      particleB |-> particleB,
                                      crossProduct |-> crossProduct,
                                      crossingAngle |-> crossingAngle,
                                      tensionA |-> tensionA,
                                      tensionB |-> tensionB]),
                !.events = Append(@, Event("formed", cooldownKey))]
        ELSE w

RECURSIVE ScanTangles(_, _, _, _, _)
ScanTangles(w, ropeA, ropeB, n, sc) ==
    IF n > Len(SegmentPairs) THEN w
    ELSE LET w1 == TryFormTangle(w, ropeA, ropeB,
                                 SegmentPairs[n][1], SegmentPairs[n][2], sc)
         IN  IF Len(w1.tangles) >= Len(w.tangles)
             THEN ScanTangles(w1, ropeA, ropeB, n + 1, sc)
             ELSE w1

\* detectRopePairTangles: the two caps are tested once, on entry
detectRopePairTangles(w, ropeA, ropeB, sc) ==
    IF Len(w.tangles) >= maxTotalTangles THEN w
    ELSE IF countTanglesBetweenRopes(w.tangles, ropeA, ropeB) >= maxTanglesPerRopePair
    THEN w
    ELSE ScanTangles(w, ropeA, ropeB, 1, sc)

RECURSIVE detectNewTanglesFrom(_, _, _)
detectNewTanglesFrom(w, p, sc) ==
    IF p > Len(RopePairs) THEN w
    ELSE detectNewTanglesFrom(
            detectRopePairTangles(w, RopePairs[p][1], RopePairs[p][2], sc), p + 1, sc)

detectNewTangles(w, sc) == detectNewTanglesFrom(w, 1, sc)

\* Faulty variant of the first loop of updateTangles: a cooldown is deleted
\* one frame early.
DecrementCooldownsEarly(cooldowns) ==
    [k \in {q \in DOMAIN cooldowns : cooldowns[q] > 2} |-> cooldowns[k] - 1]

\* updateTangles, first loop: a cooldown of 1 (or less) is deleted, every
\* other one is decremented
DecrementCooldowns(cooldowns) ==
    [k \in {q \in DOMAIN cooldowns : cooldowns[q] > 1} |-> cooldowns[k] - 1]

\* updateTangles, second and third loop: shouldBreak on every tangle in array
\* order (onTangleBroken fires at once), then the removals
RECURSIVE BreakScan(_, _, _, _)
BreakScan(w, i, keep, sc) ==
    IF i > Len(w.tangles) THEN [w EXCEPT !.tangles = keep]
    ELSE LET r == shouldBreak(w.tangles[i], sc.sep)
             t == r.tangle
         IN  IF r.breaks
             THEN BreakScan(
                    [w EXCEPT
                       !.broken = Append(@, [tangle |-> t, slack |-> r.slack,
                                             distance |-> sc.sep,
                                             breakDistance |-> BreakDistance(t)]),
                       !.events = Append(@, Event("broken",
                                     <<t.ropeA, t.ropeB, t.particleA[2], t.particleB[2]>>))],
                    i + 1, keep, sc)
             ELSE BreakScan(w, i + 1, Append(keep, t), sc)

updateTangles(w, sc) ==
    LET w1 == [w EXCEPT !.cooldowns = DecrementCooldowns(@)]
        w2 == BreakScan(w1, 1, << >>, sc)
    IN  detectNewTangles(w2, sc)


(***************************************************************************)
(* Crossing detection and the pipeline behind the crossing callback        *)
(***************************************************************************)
\* CrossingDetector.makeKey
makeKey(ropeIdA, ropeIdB, segA, segB) ==
    IF ropeIdA > ropeIdB \/ (ropeIdA = ropeIdB /\ segA > segB)
    THEN Key(ropeIdB, ropeIdA, segB, segA)
    ELSE Key(ropeIdA, ropeIdB, segA, segB)

\* CrossingDetector.onCrossing: a key seen before is dropped, a new one is
\* remembered and passed to BraidTracker.recordCrossing
onCrossing(w, ropeA, ropeB, segIdxA, segIdxB) ==
    LET key == makeKey(ropeA, ropeB, segIdxA, segIdxB)
    IN  IF key \notin w.previous
        THEN [w EXCEPT !.previous = @ \cup {key},
                       !.events = Append(@, Event("record", key))]
        ELSE w

\* Simulation.handleCrossing, the callback Simulation registers with
\* PhysicsWorld.onCrossing
handleCrossing(w, ropeA, ropeB, segIdxA, segIdxB) ==
    onCrossing(w, ropeA, ropeB, segIdxA, segIdxB)

\* One pass of the inner loop body of detectRopeCrossings; acc is the local
\* newIntersections
CheckCrossing(st, ropeA, ropeB, segA, segB, sc) ==
    LET key == Key(ropeA, ropeB, segA, segB)
    IN  IF segA \notin ActiveSegs \/ segB \notin ActiveSegs THEN st
        ELSE IF ~Intersects(key, sc) THEN st
        ELSE IF key \notin st.w.current
        THEN [w |-> handleCrossing(
                       [st.w EXCEPT !.events = Append(@, Event("crossing", key))],
                       ropeA, ropeB, segA, segB),
              acc |-> st.acc \cup {key}]
        ELSE [st EXCEPT !.acc = @ \cup {key}]

\* Simulation.propagateHeightToLeash: the height of particle i of a leash
\* whose dog is at height dogHeight, smoothstep of i / (numParticles - 1)
particleHeight(i, dogHeight) ==
    LET n == ParticleCount - 1
        smoothT == (i * i * (3 * n - 2 * i) * 1000) \div (n * n * n)
    IN  (smoothT * dogHeight) \div 1000

\* Linear interpolation between the heights of the two particles of segment
\* seg at parameter t (thousandths)
Interpolate(seg, dogHeight, t) ==
    LET h1 == particleHeight(seg, dogHeight)
        h2 == particleHeight(seg + 1, dogHeight)
    IN  h1 + ((h2 - h1) * t) \div 1000

\* The parameter the code interpolates at: (result.t1 || 0.5), so 0.5 when
\* the parameter is 0
OrHalf(t) == IF t = 0 THEN 500 ELSE t

\* The sign detectRopeCrossings passes to the crossing callback
crossingSign(segA, dogHeightA, t1, segB, dogHeightB, t2) ==
    LET heightA == Interpolate(segA, dogHeightA, OrHalf(t1))
        heightB == Interpolate(segB, dogHeightB, OrHalf(t2))
    IN  IF heightA > heightB THEN 1 ELSE -1

\* What detectRopeCrossings read and passed on at a new intersection
Report(segA, dogHeightA, t1, segB, dogHeightB, t2, sign) ==
    [segA |-> segA, dogHeightA |-> dogHeightA, t1 |-> t1,
     segB |-> segB, dogHeightB |-> dogHeightB, t2 |-> t2, sign |-> sign]

NoReport == Report(0, 0, 0, 0, 0, 0, 0)

RECURSIVE ScanCrossings(_, _, _, _, _)
ScanCrossings(st, ropeA, ropeB, n, sc) ==
    IF n > Len(SegmentPairs) THEN st
    ELSE LET st1 == CheckCrossing(st, ropeA, ropeB,
                                  SegmentPairs[n][1], SegmentPairs[n][2], sc)
         IN  IF st.acc \subseteq st1.acc
             THEN ScanCrossings(st1, ropeA, ropeB, n + 1, sc)
             ELSE st1

\* Faulty variant of detectRopeCrossings: the keys found are added to
\* this.currentIntersections and none is ever dropped.
detectRopeCrossingsKeep(w, ropeA, ropeB, sc) ==
    LET st == ScanCrossings([w |-> w, acc |-> {}], ropeA, ropeB, 1, sc)
    IN  [st.w EXCEPT !.current = w.current \cup st.acc]

\* detectRopeCrossings: this.currentIntersections is replaced by the set
\* collected for this one rope pair
detectRopeCrossings(w, ropeA, ropeB, sc) ==
    LET st == ScanCrossings([w |-> w, acc |-> {}], ropeA, ropeB, 1, sc)
    IN  [st.w EXCEPT !.current = st.acc]

RECURSIVE detectCrossingsFrom(_, _, _)
detectCrossingsFrom(w, p, sc) ==
    IF p > Len(RopePairs) THEN w
    ELSE detectCrossingsFrom(
            detectRopeCrossings(w, RopePairs[p][1], RopePairs[p][2], sc), p + 1, sc)

\* detectCrossings (Simulation's constructor has registered the callback)
detectCrossings(w, sc) == detectCrossingsFrom(w, 1, sc)

(***************************************************************************)
(* Rope-rope collision.  A contact is a free particle of one rope next to  *)
(* a segment of another: a, p1 and p2 are the predicted positions of the   *)
(* particle and of the two particles of the segment along the line from    *)
(* the closest point of the segment (its middle) to the particle,          *)
(* thousandths.                                                            *)
(***************************************************************************)
Contact(particleA, p1, p2, a, y1, y2) ==
    [particleA |-> particleA, p1 |-> p1, p2 |-> p2, a |-> a, y1 |-> y1, y2 |-> y2]

NoContact == Contact(Particle(0, 0), Particle(1, 0), Particle(1, 1), 0, 0, 0)

\* The body of the inner loop of solveRopePairCollision: within the collision
\* radius the particle is pushed away by half the overlap and the two
\* particles of the segment by a quarter of it, the other way
PushApart(tangles, c) ==
    LET closest == (c.y1 + c.y2) \div 2
        distance == IF c.a >= closest THEN c.a - closest ELSE closest - c.a
        overlap == ropeCollisionRadius - distance
        push == overlap \div 2
        segPush == push \div 2
        dir == IF c.a >= closest THEN 1 ELSE -1
    IN  IF areTangled(tangles, c.particleA, c.p1) \/ areTangled(tangles, c.particleA, c.p2)
        THEN c
        ELSE IF distance < ropeCollisionRadius /\ distance > MinPushDistance
        THEN [c EXCEPT !.a = @ + dir * push,
                       !.y1 = @ - dir * segPush,
                       !.y2 = @ - dir * segPush]
        ELSE c

\* Faulty variant of solveRopeCollisions: allowFreeCrossing is not looked at
solveRopeCollisionsAlways(tangles, c) == PushApart(tangles, c)

\* solveRopeCollisions: nothing is done when allowFreeCrossing is set
solveRopeCollisions(tangles, c) ==
    IF allowFreeCrossing THEN c ELSE PushApart(tangles, c)

\* The collision passes of the solver loop of one step
RECURSIVE CollisionIterations(_, _, _)
CollisionIterations(tangles, c, i) ==
    IF i >= solverIterations THEN c
    ELSE CollisionIterations(tangles, solveRopeCollisions(tangles, c), i + 1)

(***************************************************************************)
(* PhysicsWorld.step                                                       *)
(***************************************************************************)
\* The solver loop calls tangle.solve once per iteration on every tangle
RECURSIVE SolveIterations(_, _, _)
SolveIterations(t, i, sc) ==
    IF i >= solverIterations THEN t
    ELSE SolveIterations(
            solve(t, Max(0, t.restDistance + sc.stretch), sc.quality), i + 1, sc)

SolveTangles(w, sc) ==
    [w EXCEPT !.tangles =
        [i \in 1 .. Len(w.tangles) |-> SolveIterations(w.tangles[i], 0, sc)]]

\* The solver loop adds dt to tangle.age after each call of tangle.solve
RECURSIVE AgeIterations(_, _, _)
AgeIterations(age, i, dt) ==
    IF i >= solverIterations THEN age
    ELSE AgeIterations(age + dt, i + 1, dt)

\* A new TangleConstraint has age 0; elapsed is the simulated time since its
\* formation (bookkeeping)
NewAge == [age |-> 0, elapsed |-> 0]

\* updatePosition on every particle: predicted becomes position
CommitPositions(w) == [w EXCEPT !.events = Append(@, Event("commit", <<0, 0, 0, 0>>))]

\* Faulty variant of step: crossing detection runs before the tangle
\* lifecycle.
stepDetectFirst(w, sc) ==
    LET w0 == [w EXCEPT !.events = << >>, !.formed = << >>, !.broken = << >>]
        w1 == SolveTangles(w0, sc)
        w2 == CommitPositions(w1)
        w3 == detectCrossings(w2, sc)
    IN  updateTangles(w3, sc)

step(w, sc) ==
    LET w0 == [w EXCEPT !.events = << >>, !.formed = << >>, !.broken = << >>]
        w1 == SolveTangles(w0, sc)
        w2 == CommitPositions(w1)
        w3 == updateTangles(w2, sc)
    IN  detectCrossings(w3, sc)

\* The ages of the tangles of w after step(dt) has made the world "after" of
\* it, in the order of tangleConstraints: the tangles the solver loop has
\* aged and updateTangles has kept, then the tangles formed in the tick
RECURSIVE KeepAges(_, _, _, _)
KeepAges(tangles, ages, i, sc) ==
    IF i > Len(tangles) THEN << >>
    ELSE LET t == SolveIterations(tangles[i], 0, sc)
         IN  (IF shouldBreak(t, sc.sep).breaks THEN << >> ELSE <<ages[i]>>)
             \o KeepAges(tangles, ages, i + 1, sc)

stepAges(w, ages, sc, dt, after) ==
    LET aged == [i \in 1 .. Len(ages) |->
                    [age |-> AgeIterations(ages[i].age, 0, dt),
                     elapsed |-> ages[i].elapsed + dt]]
        kept == KeepAges(w.tangles, aged, 1, sc)
    IN  kept \o [k \in 1 .. (Len(after.tangles) - Len(kept)) |-> NewAge]

(***************************************************************************)
(* PhysicsWorld.ropes.  The loops of detectNewTangles and detectCrossings   *)
(* run over the ropes that are in this.ropes; the solver loop and          *)
(* updateTangles run over this.tangleConstraints.                          *)
(***************************************************************************)
\* The pairs  for i .. for j = i + 1 ..  over this.ropes, in loop order
RECURSIVE PairsFrom(_, _, _)
PairsFrom(rs, i, j) ==
    IF i >= Len(rs) THEN << >>
    ELSE IF j > Len(rs) THEN PairsFrom(rs, i + 1, i + 2)
    ELSE << <<rs[i], rs[j]>> >> \o PairsFrom(rs, i, j + 1)

PairsOf(rs) == PairsFrom(rs, 1, 2)

RECURSIVE detectNewTanglesOf(_, _, _, _)
detectNewTanglesOf(w, pairs, p, sc) ==
    IF p > Len(pairs) THEN w
    ELSE detectNewTanglesOf(
            detectRopePairTangles(w, pairs[p][1], pairs[p][2], sc), pairs, p + 1, sc)

RECURSIVE detectCrossingsOf(_, _, _, _)
detectCrossingsOf(w, pairs, p, sc) ==
    IF p > Len(pairs) THEN w
    ELSE detectCrossingsOf(
            detectRopeCrossings(w, pairs[p][1], pairs[p][2], sc), pairs, p + 1, sc)

\* step of a world whose ropes are rs
stepOf(w, rs, sc) ==
    LET w0 == [w EXCEPT !.events = << >>, !.formed = << >>, !.broken = << >>]
        w1 == SolveTangles(w0, sc)
        w2 == CommitPositions(w1)
        w3 == [w2 EXCEPT !.cooldowns = DecrementCooldowns(@)]
        w4 == BreakScan(w3, 1, << >>, sc)
        w5 == detectNewTanglesOf(w4, PairsOf(rs), 1, sc)
    IN  detectCrossingsOf(w5, PairsOf(rs), 1, sc)

\* addRope
addRope(rs, rope) == Append(rs, rope)

\* removeRope: the rope is spliced out of this.ropes if it is there
removeRope(rs, rope) == SelectSeq(rs, LAMBDA r : r # rope)

(***************************************************************************)
(* Crossing and BraidWord.  A BraidWord is an object: the words alive      *)
(* during one call are kept in a store, s.words[r] being the crossings     *)
(* array of the word with reference r.  Reference 1 is the receiver.       *)
(* Timestamps are carried along by the code and never read; they are left  *)
(* out.                                                                    *)
(***************************************************************************)
Crossing(generator, sign) == [generator |-> generator, sign |-> sign]

\* Crossing.inverse
inverse(c) == Crossing(c.generator, 0 - c.sign)

\* Faulty variant of cancels: the signs are not compared
cancelsAnySign(a, b) == a.generator = b.generator

\* Crossing.cancels
cancels(a, b) == a.generator = b.generator /\ a.sign = 0 - b.sign

NewStore(word) == [words |-> <<word>>]

\* new BraidWord(crossings): a fresh object with a copy of the array
NewWord(s, crossings) ==
    [store |-> [s EXCEPT !.words = Append(@, crossings)], ref |-> Len(s.words) + 1]

\* BraidWord.clone
clone(s, r) == NewWord(s, s.words[r])

\* Faulty variant of the loop of simplify: only pairs that are adjacent in
\* the receiver cancel, a pair that becomes adjacent later does not.
RECURSIVE SimplifyScanAdjacent(_, _, _)
SimplifyScanAdjacent(word, i, result) ==
    IF i > Len(word) THEN result
    ELSE IF i < Len(word) /\ cancels(word[i], word[i + 1])
    THEN SimplifyScanAdjacent(word, i + 2, result)
    ELSE SimplifyScanAdjacent(word, i + 1, Append(result, word[i]))

\* The loop of simplify over the receiver's crossings
RECURSIVE SimplifyScan(_, _, _)
SimplifyScan(word, i, result) ==
    IF i > Len(word) THEN result
    ELSE IF Len(result) > 0 /\ cancels(result[Len(result)], word[i])
    THEN SimplifyScan(word, i + 1, SubSeq(result, 1, Len(result) - 1))
    ELSE SimplifyScan(word, i + 1, Append(result, word[i]))

\* BraidWord.simplify
simplify(s, r) ==
    IF Len(s.words[r]) < 2 THEN clone(s, r)
    ELSE NewWord(s, SimplifyScan(s.words[r], 1, << >>))

\* The two patterns applyYangBaxter tests at index i
IsYangBaxter(word, i, g1, g2) ==
    /\ word[i].generator = g1 /\ word[i + 1].generator = g2
    /\ word[i + 2].generator = g1
    /\ word[i].sign = word[i + 1].sign /\ word[i + 1].sign = word[i + 2].sign

RewriteAt(word, i, g1, g2) ==
    [k \in 1 .. Len(word) |->
        IF k = i \/ k = i + 2 THEN Crossing(g1, word[k].sign)
        ELSE IF k = i + 1 THEN Crossing(g2, word[k].sign)
        ELSE word[k]]

\* Faulty variant of the loop of applyYangBaxter: the signs are not compared
RECURSIVE YangBaxterScanAnySign(_, _)
YangBaxterScanAnySign(word, i) ==
    IF ~(i < Len(word) - 1) THEN [word |-> word, ret |-> FALSE]
    ELSE IF word[i].generator = 1 /\ word[i + 1].generator = 2
            /\ word[i + 2].generator = 1
    THEN [word |-> RewriteAt(word, i, 2, 1), ret |-> TRUE]
    ELSE IF word[i].generator = 2 /\ word[i + 1].generator = 1
            /\ word[i + 2].generator = 2
    THEN [word |-> RewriteAt(word, i, 1, 2), ret |-> TRUE]
    ELSE YangBaxterScanAnySign(word, i + 1)

\* The loop of applyYangBaxter (i counts from 1 here)
RECURSIVE YangBaxterScan(_, _)
YangBaxterScan(word, i) ==
    IF ~(i < Len(word) - 1) THEN [word |-> word, ret |-> FALSE]
    ELSE IF IsYangBaxter(word, i, 1, 2)
    THEN [word |-> RewriteAt(word, i, 2, 1), ret |-> TRUE]
    ELSE IF IsYangBaxter(word, i, 2, 1)
    THEN [word |-> RewriteAt(word, i, 1, 2), ret |-> TRUE]
    ELSE YangBaxterScan(word, i + 1)

\* BraidWord.applyYangBaxter: rewrites the receiver's own array
applyYangBaxter(s, r) ==
    LET res == YangBaxterScan(s.words[r], 1)
    IN  [store |-> [s EXCEPT !.words[r] = res.word], ret |-> res.ret]

\* Faulty variant of the loop of reduce: the first round never stops the
\* loop, also when it left the length unchanged.
RECURSIVE ReduceLoopLate(_, _, _, _)
ReduceLoopLate(s, current, iterations, rounds) ==
    IF ~(iterations < maxIterations)
    THEN [store |-> s, ref |-> current, rounds |-> rounds]
    ELSE LET beforeLength == Len(s.words[current])
             simplified == simplify(s, current)
             s2 == applyYangBaxter(simplified.store, simplified.ref).store
         IN  IF Len(s2.words[simplified.ref]) = beforeLength /\ rounds > 0
             THEN [store |-> s2, ref |-> simplified.ref, rounds |-> rounds + 1]
             ELSE ReduceLoopLate(s2, simplified.ref, iterations + 1, rounds + 1)

\* The loop of reduce; rounds counts the runs of its body
RECURSIVE ReduceLoop(_, _, _, _)
ReduceLoop(s, current, iterations, rounds) ==
    IF ~(iterations < maxIterations)
    THEN [store |-> s, ref |-> current, rounds |-> rounds]
    ELSE LET beforeLength == Len(s.words[current])
             simplified == simplify(s, current)
             s2 == applyYangBaxter(simplified.store, simplified.ref).store
         IN  IF Len(s2.words[simplified.ref]) = beforeLength
             THEN [store |-> s2, ref |-> simplified.ref, rounds |-> rounds + 1]
             ELSE ReduceLoop(s2, simplified.ref, iterations + 1, rounds + 1)

\* Faulty variant of reduce: the Yang-Baxter rewrite of the first round is
\* applied to the receiver.
reduceInPlace(s, r) ==
    LET c == clone(s, r)
    IN  ReduceLoop(applyYangBaxter(c.store, r).store, c.ref, 0, 0)

\* BraidWord.reduce
reduce(s, r) ==
    LET c == clone(s, r)
    IN  ReduceLoop(c.store, c.ref, 0, 0)

(***************************************************************************)
(* BraidTracker.  A tracker value t holds braidWord (the crossings of the  *)
(* live word), eventLog (the crossing of each event) and lastCrossing.     *)
(***************************************************************************)
\* this.lastCrossing = null
NoCrossing == [time |-> -1, ropeA |-> -1, ropeB |-> -1]

\* A further rope, registered with registerRope at a slot past the three
\* dogs
ExtraRope == NumRopes + 1
ExtraSlot == NumRopes
RegisteredRopes == Ropes \cup {ExtraRope}

\* Faulty variant of the rope map: an unknown rope id is taken for dog 0
ropeToDoagDefault(ropeId) ==
    IF ropeId \in Ropes THEN ropeId
    ELSE IF ropeId = ExtraRope THEN ExtraSlot
    ELSE 0

\* this.ropeToDoag.get(ropeId) after Simulation.init has registered rope i as
\* dog i and registerRope(ExtraRope, ExtraSlot) was called; -1 stands for
\* undefined
ropeToDoag(ropeId) ==
    IF ropeId \in Ropes THEN ropeId
    ELSE IF ropeId = ExtraRope THEN ExtraSlot
    ELSE -1

\* Faulty variant of the generator choice: the dog pair is not sorted
GeneratorOfUnsorted(dogA, dogB) ==
    IF <<dogA, dogB>> = <<0, 1>> THEN 1
    ELSE IF <<dogA, dogB>> = <<1, 2>> THEN 2
    ELSE IF <<dogA, dogB>> = <<0, 2>> THEN 1
    ELSE 0

\* Faulty variant of the debounce test: the rope ids are not compared
DebouncedAnyPair(t, ropeIdA, ropeIdB, clock) ==
    /\ t.lastCrossing # NoCrossing
    /\ clock - t.lastCrossing.time < crossingCooldown

\* The debounce test of recordCrossing
Debounced(t, ropeIdA, ropeIdB, clock) ==
    /\ t.lastCrossing # NoCrossing
    /\ clock - t.lastCrossing.time < crossingCooldown
    /\ t.lastCrossing.ropeA = ropeIdA
    /\ t.lastCrossing.ropeB = ropeIdB

\* The generator of a sorted dog pair; 0 stands for "Invalid dog pair"
GeneratorOf(dogA, dogB) ==
    LET sortedDogs == <<Min(dogA, dogB), Max(dogA, dogB)>>
    IN  IF sortedDogs = <<0, 1>> THEN 1
        ELSE IF sortedDogs = <<1, 2>> THEN 2
        ELSE IF sortedDogs = <<0, 2>> THEN 1
        ELSE 0

\* BraidTracker.recordCrossing at time clock (Date.now()); ret tells whether
\* an event is returned (TRUE) or null (FALSE)
recordCrossing(t, ropeIdA, ropeIdB, sign, clock) ==
    LET dogA == ropeToDoag(ropeIdA)
        dogB == ropeToDoag(ropeIdB)
        generator == GeneratorOf(dogA, dogB)
        crossing == Crossing(generator, sign)
    IN  IF Debounced(t, ropeIdA, ropeIdB, clock) THEN [tracker |-> t, ret |-> FALSE]
        ELSE IF dogA = -1 \/ dogB = -1 THEN [tracker |-> t, ret |-> FALSE]
        ELSE IF generator = 0 THEN [tracker |-> t, ret |-> FALSE]
        ELSE [tracker |->
                 [braidWord |-> Append(t.braidWord, crossing),
                  eventLog |-> Append(t.eventLog, crossing),
                  lastCrossing |-> [time |-> clock, ropeA |-> ropeIdA,
                                    ropeB |-> ropeIdB]],
              ret |-> TRUE]

\* BraidTracker.getStats: the reduced copy behind simplifiedLength,
\* complexity, simplifiedWord and isTrivial
getStats(s) == reduce(s, 1)

\* BraidTracker.isTangled
isTangled(s) == reduce(s, 1)

\* BraidTracker.getUntangleSequence
getUntangleSequence(s) ==
    LET reduced == reduce(s, 1)
        crossings == reduced.store.words[reduced.ref]
        n == Len(crossings)
    IN  NewWord(reduced.store, [i \in 1 .. n |-> inverse(crossings[n + 1 - i])])

\* BraidTracker.reset
reset(t) == [braidWord |-> << >>, eventLog |-> << >>, lastCrossing |-> NoCrossing]

(***************************************************************************)
(* Rope: the particles of one leash on a line through its two ends.        *)
(* Positions are in hundredths of a pixel, time in ticks (dt = 1),         *)
(* inverse masses as the leash options give them.                          *)
(***************************************************************************)
RopeParticles == 1 .. (RopeSegments + 1)
StartParticle == 1
EndParticle == RopeSegments + 1

Abs(x) == IF x < 0 THEN 0 - x ELSE x

\* Division as floating point does it up to rounding: towards zero
Trunc(a, b) == IF a >= 0 THEN a \div b ELSE 0 - ((0 - a) \div b)

\* new Particle(x, y, mass)
NewParticle(x) ==
    [position |-> x, prevPosition |-> x, predicted |-> x,
     inverseMass |-> InverseMass, acceleration |-> 0]

\* new Rope(startPos, endPos, numSegments, options): particles lerped from
\* start to end, one distance constraint of rest length SegmentLength per
\* segment, one bending constraint with rest angle pi per inner particle
NewRope == [i \in RopeParticles |-> NewParticle(SegmentLength * i)]

\* Particle.pin
pin(p) == [p EXCEPT !.inverseMass = 0]

\* Particle.applyForce
applyForce(p, force) ==
    IF p.inverseMass > 0
    THEN [p EXCEPT !.acceleration = @ + force * p.inverseMass]
    ELSE p

\* Particle.integrate(dt)
integrate(p) ==
    IF p.inverseMass = 0 THEN [p EXCEPT !.predicted = p.position]
    ELSE [p EXCEPT
            !.predicted = p.position
                + Trunc((p.position - p.prevPosition) * (1000 - damping), 1000)
                + p.acceleration,
            !.acceleration = 0]

\* Particle.updatePosition(dt)
updatePosition(p) ==
    IF p.inverseMass = 0 THEN p
    ELSE [p EXCEPT !.prevPosition = p.position, !.position = p.predicted]

\* Particle.teleport(x, y)
teleport(p, x) ==
    [p EXCEPT !.position = x, !.prevPosition = x, !.predicted = x]

\* TRUE, once the particles ps have been computed
Ready(ps) == ps = ps

\* Rope.applyGravity(gravity)
applyGravity(ps, gravity) == [i \in RopeParticles |-> applyForce(ps[i], gravity)]

\* The weighted correction two constraints share: particle a moves by
\* correction * wA, particle b by -correction * wB, with
\* correction = delta * error / (distance * wSum)
Correct(ps, a, b, error) ==
    LET delta == ps[b].predicted - ps[a].predicted
        distance == Abs(delta)
        wSum == ps[a].inverseMass + ps[b].inverseMass
        moveA == Trunc(delta * error * ps[a].inverseMass, distance * wSum)
        moveB == Trunc(delta * error * ps[b].inverseMass, distance * wSum)
    IN  [ps EXCEPT ![a].predicted = @ + moveA, ![b].predicted = @ - moveB]

\* DistanceConstraint.solve of the segment from particle i to i + 1
\* (stiffness 1.0)
DistanceSolve(ps, i) ==
    LET distance == Abs(ps[i + 1].predicted - ps[i].predicted)
        wSum == ps[i].inverseMass + ps[i + 1].inverseMass
    IN  IF distance = 0 \/ wSum = 0 THEN ps
        ELSE Correct(ps, i, i + 1, distance - SegmentLength)

\* The distance constraints of the rope, in order, from segment i on
RECURSIVE SolveDistances(_, _)
SolveDistances(ps, i) ==
    IF i > RopeSegments THEN ps
    ELSE LET next == DistanceSolve(ps, i)
         IN  IF Ready(next) THEN SolveDistances(next, i + 1) ELSE ps

\* BendingConstraint.calculateAngle in milliradians: on a line the angle at
\* b is pi when b lies between a and c, 0 when it lies outside, and
\* acos(0) when b coincides with a or c
calculateAngle(a, b, c) ==
    IF a = b \/ c = b THEN HalfPi
    ELSE IF (a < b) = (b < c) THEN 2 * HalfPi
    ELSE 0

\* BendingConstraint.solve of the inner particle i (rest angle pi)
BendingSolve(ps, i) ==
    LET angleError ==
            calculateAngle(ps[i - 1].predicted, ps[i].predicted, ps[i + 1].predicted)
                - 2 * HalfPi
        center2 == ps[i - 1].predicted + ps[i + 1].predicted
        pushDir == IF 2 * ps[i].predicted > center2 THEN 1
                   ELSE IF 2 * ps[i].predicted < center2 THEN -1 ELSE 0
        pushAmount == Trunc(angleError * bendStiffness, 100000)
    IN  IF Abs(angleError) < 10 THEN ps
        ELSE IF ps[i].inverseMass > 0
        THEN [ps EXCEPT ![i].predicted = @ + pushDir * pushAmount]
        ELSE ps

RECURSIVE SolveBendings(_, _)
SolveBendings(ps, i) ==
    IF i > RopeSegments THEN ps
    ELSE LET next == BendingSolve(ps, i)
         IN  IF Ready(next) THEN SolveBendings(next, i + 1) ELSE ps

\* Wrong variant of TangleSolve: the correction is not weighted by the
\* particle's own inverse mass
TangleSolveUnweighted(ps, pull) ==
    IF pull.j = 0 THEN ps
    ELSE [ps EXCEPT ![pull.j].predicted = @ + Trunc(pull.amount, 2)]

\* TangleConstraint.solve as this rope sees it: the tangle's correction on
\* particle j, weighted by the particle's inverse mass against that of the
\* other rope's particle; pull.j = 0 when no tangle holds the rope
TangleSolve(ps, pull) ==
    IF pull.j = 0 THEN ps
    ELSE [ps EXCEPT ![pull.j].predicted =
             @ + Trunc(pull.amount * ps[pull.j].inverseMass, 2 * InverseMass)]

\* PhysicsWorld.solveBoundaryConstraints
solveBoundaryConstraints(ps) ==
    [i \in RopeParticles |->
        IF ps[i].inverseMass = 0 THEN ps[i]
        ELSE [ps[i] EXCEPT !.predicted = Max(0, Min(MaxPos, @))]]

\* The solver loop of step from iteration i on; solveRopeCollisions returns
\* at once because allowFreeCrossing is set
RECURSIVE SolverLoop(_, _, _)
SolverLoop(ps, i, pull) ==
    IF ~(i < solverIterations) THEN ps
    ELSE LET distanced == SolveDistances(ps, 1)
             tangled == TangleSolve(distanced, pull)
             bent == IF 2 * i < solverIterations THEN SolveBendings(tangled, 2)
                     ELSE tangled
             bounded == solveBoundaryConstraints(bent)
         IN  IF Ready(distanced) /\ Ready(tangled) /\ Ready(bent) /\ Ready(bounded)
             THEN SolverLoop(bounded, i + 1, pull)
             ELSE ps

\* One segment of Rope.enforceStrictLength: only a stretched segment is
\* corrected
StrictSolve(ps, i) ==
    LET distance == Abs(ps[i + 1].predicted - ps[i].predicted)
        wSum == ps[i].inverseMass + ps[i + 1].inverseMass
    IN  IF distance <= SegmentLength \/ distance = 0 \/ wSum = 0 THEN ps
        ELSE Correct(ps, i, i + 1, distance - SegmentLength)

RECURSIVE SolveStricts(_, _)
SolveStricts(ps, i) ==
    IF i > RopeSegments THEN ps
    ELSE LET next == StrictSolve(ps, i)
         IN  IF Ready(next) THEN SolveStricts(next, i + 1) ELSE ps

\* Rope.enforceStrictLength(iterations)
RECURSIVE enforceStrictLength(_, _)
enforceStrictLength(ps, iterations) ==
    IF iterations = 0 THEN ps
    ELSE LET next == SolveStricts(ps, 1)
         IN  IF Ready(next) THEN enforceStrictLength(next, iterations - 1) ELSE ps

\* Rope.getPredictedLength
RECURSIVE PredictedLengthFrom(_, _)
PredictedLengthFrom(ps, i) ==
    IF i > RopeSegments THEN 0
    ELSE Abs(ps[i + 1].predicted - ps[i].predicted) + PredictedLengthFrom(ps, i + 1)

getPredictedLength(ps) == PredictedLengthFrom(ps, 1)

\* Rope.getCurrentLength, on committed positions
RECURSIVE LengthFrom(_, _)
LengthFrom(ps, i) ==
    IF i > RopeSegments THEN 0
    ELSE Abs(ps[i + 1].position - ps[i].position) + LengthFrom(ps, i + 1)

getCurrentLength(ps) == LengthFrom(ps, 1)

\* Rope.getRestLength
getRestLength == RopeSegments * SegmentLength

\* Wrong variant of the anchor choice: a rope without a pinned end is scaled
\* from its start
AnchorOrStart(ps) == StartParticle

\* The anchor of enforceMaxLength: the start if pinned, else the end if
\* pinned, else none (0)
Anchor(ps) ==
    IF ps[StartParticle].inverseMass = 0 THEN StartParticle
    ELSE IF ps[EndParticle].inverseMass = 0 THEN EndParticle
    ELSE 0

\* Rope.enforceMaxLength(maxStretchFactor), the factor in thousandths
enforceMaxLength(ps, maxStretchFactor) ==
    LET maxLength == (getRestLength * maxStretchFactor) \div 1000
        currentLength == getPredictedLength(ps)
        anchor == Anchor(ps)
    IN  IF currentLength <= maxLength THEN ps
        ELSE IF anchor = 0 THEN ps
        ELSE [i \in RopeParticles |->
                 IF ps[i].inverseMass = 0 THEN ps[i]
                 ELSE [ps[i] EXCEPT !.predicted =
                          ps[anchor].predicted
                              + Trunc((@ - ps[anchor].predicted) * maxLength,
                                      currentLength)]]

\* PhysicsWorld.step(dt) on the particles of one rope: gravity is the
\* component of the world's gravity along the line, pull what the tangle
\* constraints do to the rope in this step
stepRope(ps, gravity, pull) ==
    LET forced == applyGravity(ps, gravity)
        integrated == [i \in RopeParticles |-> integrate(forced[i])]
        solved == SolverLoop(integrated, 0, pull)
        strict == enforceStrictLength(solved, 2)
        limited == enforceMaxLength(strict, 1000)
    IN  IF Ready(integrated) /\ Ready(solved) /\ Ready(strict) /\ Ready(limited)
        THEN [i \in RopeParticles |-> updatePosition(limited[i])]
        ELSE ps

(***************************************************************************)
(* State                                                                   *)
(***************************************************************************)
VARIABLES tangleConstraints, tangleCooldowns, currentIntersections,
          previousIntersections, events, formed, broken,
          lastX, prevX, prev2X, sinceFormed, lastGap, ticks, scene,
          braidWord, eventLog, lastCrossing, now, op, out, particles,
          maxStretchFactor, ropeCalls, tangleAges, crossing,
          contact, ropes

world == <<tangleConstraints, tangleCooldowns, currentIntersections,
           previousIntersections, events, formed, broken>>
history == <<lastX, prevX, prev2X>>
vars == <<tangleConstraints, tangleCooldowns, currentIntersections,
          previousIntersections, events, formed, broken,
          lastX, prevX, prev2X, sinceFormed, lastGap, ticks, scene,
          braidWord, eventLog, lastCrossing, now, op, out, particles,
          maxStretchFactor, ropeCalls, tangleAges, crossing,
          contact, ropes>>
physicsVars == <<tangleConstraints, tangleCooldowns, currentIntersections,
                 previousIntersections, events, formed, broken,
                 lastX, prevX, prev2X, sinceFormed, lastGap, ticks, scene>>
trackerVars == <<braidWord, eventLog, lastCrossing, now>>
ropeVars == <<particles, maxStretchFactor, ropeCalls>>
worldVars == <<tangleAges, crossing, contact, ropes>>

Tracker ==
    [braidWord |-> braidWord, eventLog |-> eventLog, lastCrossing |-> lastCrossing]

\* What the last call was given and what it gave back (bookkeeping)
Out(ropeIdA, ropeIdB, sign, input, word, ret, rounds) ==
    [ropeA |-> ropeIdA, ropeB |-> ropeIdB, sign |-> sign, input |-> input,
     word |-> word, ret |-> ret, rounds |-> rounds]

World ==
    [tangles |-> tangleConstraints, cooldowns |-> tangleCooldowns,
     current |-> currentIntersections, previous |-> previousIntersections,
     events |-> events, formed |-> formed, broken |-> broken]

EmptyMap == [k \in {} |-> 0]

\* new PhysicsWorld(), new CrossingDetector(tracker), ropes added by init
Init ==
    /\ tangleConstraints = << >>
    /\ tangleCooldowns = EmptyMap
    /\ currentIntersections = {}
    /\ previousIntersections = {}
    /\ events = << >>
    /\ formed = << >>
    /\ broken = << >>
    /\ lastX = {}
    /\ prevX = {}
    /\ prev2X = {}
    /\ sinceFormed = EmptyMap
    /\ lastGap = EmptyMap
    /\ ticks = 0
    /\ scene = Scene({}, 0, 0, 0, 0, 0, 0, 0)
    /\ braidWord = << >>
    /\ eventLog = << >>
    /\ lastCrossing = NoCrossing
    /\ now = 0
    /\ op = "new"
    /\ out = Out(0, 0, 0, << >>, << >>, FALSE, 0)
    /\ particles = NewRope
    /\ maxStretchFactor = 1000
    /\ ropeCalls = 0
    /\ tangleAges = << >>
    /\ crossing = NoReport
    /\ ropes = [i \in 1 .. NumRopes |-> i - 1]
    /\ contact = [before |-> NoContact, after |-> NoContact]

\* The state PhysicsWorld.step leaves, and the record of what the tick did
Physics(w) ==
    /\ tangleConstraints' = w.tangles
    /\ tangleCooldowns' = w.cooldowns
    /\ currentIntersections' = w.current
    /\ previousIntersections' = w.previous

Logs(w) ==
    /\ events' = w.events
    /\ formed' = w.formed
    /\ broken' = w.broken

(***************************************************************************)
(* Scene sets                                                              *)
(***************************************************************************)
LastSeg == NumSegments - 1

\* The particles next to the active segments
ActiveParticles == SKIP_SEGMENTS_FROM_START .. NumSegments

PairKeys(p) == {k \in Keys : k[1] = RopePairs[p][1] /\ k[2] = RopePairs[p][2]}

\* Crossing pipeline: the last segments of the ropes cross and separate in
\* every combination; the ropes are not stretched.
TipKeys == {k \in Keys : k[3] = LastSeg /\ k[4] = LastSeg}

CrossScenes ==
    {Scene(X, 1000, LastSeg, 0, 5000, 0, 0, 5000) : X \in SUBSET TipKeys}

\* Tangle formation: up to MaxCross segment pairs of one rope pair intersect,
\* at 20, 44 or 53 degrees, on slack or stretched ropes; existing tangles are
\* left alone or pulled apart.
CrossVals == {342, 700, 800}
TensVals == {500, 20000}
SepVals == {5000, 50000}

TangleScenes ==
    {Scene(X, c, h, tn, 5000, 0, 1000, sp) :
        X \in {S \in UNION {SUBSET PairKeys(p) : p \in 1 .. Len(RopePairs)} :
                  Cardinality(S) <= MaxCross},
        c \in CrossVals, h \in ActiveParticles, tn \in TensVals, sp \in SepVals}

\* Long runs: one segment pair of ropes 0 and 1 crosses (at 90 degrees, both
\* ropes stretched) or not; the tangle is slack, lightly pulled or pulled
\* past the lock threshold (in the first MaxPullTicks ticks of a run only);
\* its particles stay close or move apart.
LongKey == Key(0, 1, SKIP_SEGMENTS_FROM_START, SKIP_SEGMENTS_FROM_START)
\* Crossing angles of 20, 44.4, 53 and 90 degrees at local stretches from
\* slack to very taut
AngleCross == {342, 700, 800, 1000}
AngleTens == {500, 20000, 200000}
AngleScenes ==
    {Scene(X, c, h, tn, 5000, 0, 0, 5000) :
        X \in {{}, {LongKey}, {LongKey, Key(0, 1, LastSeg, LastSeg)}},
        c \in AngleCross, h \in {SKIP_SEGMENTS_FROM_START, LastSeg}, tn \in AngleTens}

LightStretch == {0, 400}
HeavyStretch == {60000}

LongScenes(stretches) ==
    {Scene(X, 1000, SKIP_SEGMENTS_FROM_START, 20000, 1000, st, 0, sp) :
        X \in {{}, {LongKey}}, st \in stretches, sp \in SepVals}

\* The life of one tangle: the ropes cross at 45.2 degrees or not; a tangle
\* forms with its particles 1 or 50 units apart; it is left slack or heaved
\* (its particles dragged 300 units apart while the ropes cross at a right
\* angle there); its particles end the tick close or far apart.  A frame
\* lasts 16 or 33 milliseconds (Simulation.update caps dt at 1/30 s).
KnotCross == 710
HeaveStretch == 300000
KnotGaps == {1000, 50000}
FrameTime == 16
DeltaTimes == {FrameTime, 33}
KnotScenes ==
    {Scene(X, KnotCross, SKIP_SEGMENTS_FROM_START, 20000, gp, st, 1000, sp) :
        X \in {{}, {LongKey}}, gp \in KnotGaps, st \in {0, HeaveStretch},
        sp \in SepVals}

(***************************************************************************)
(* Actions and specifications                                              *)
(***************************************************************************)
ActiveX(sc) == {k \in sc.X : k[3] \in ActiveSegs /\ k[4] \in ActiveSegs}

\* A tick of the crossing pipeline; the intersecting sets of the last three
\* ticks are kept
TickCross ==
    \E sc \in CrossScenes : \E w \in {step(World, sc)} :
        /\ Physics(w)
        /\ Logs(w)
        /\ lastX' = ActiveX(sc)
        /\ prevX' = lastX
        /\ prev2X' = prevX
        /\ UNCHANGED <<sinceFormed, lastGap, ticks, scene, trackerVars, op, out, ropeVars, worldVars>>

\* A tick of tangle formation, MaxTicks ticks at most
TickTangle ==
    /\ ticks < MaxTicks
    /\ \E sc \in TangleScenes : \E w \in {step(World, sc)} :
        /\ Physics(w)
        /\ Logs(w)
        /\ ticks' = ticks + 1
        /\ UNCHANGED <<history, sinceFormed, lastGap, scene, trackerVars, op, out, ropeVars, worldVars>>

\* A tick on one or two crossings of ropes 0 and 1 at a given angle and
\* tension; the scene of the tick is kept
TickAngle ==
    /\ ticks < MaxTicks
    /\ \E sc \in AngleScenes : \E w \in {step(World, sc)} :
        /\ Physics(w)
        /\ Logs(w)
        /\ ticks' = ticks + 1
        /\ scene' = sc
        /\ UNCHANGED <<history, sinceFormed, lastGap, trackerVars, op, out, ropeVars, worldVars>>

FormedKeys(log) == {log[i].key : i \in 1 .. Len(log)}

\* A tick of a long run; the ticks since the last formation of a key are
\* counted up to tangleCooldownFrames + 1, and the distance between the last
\* two formations of a key is kept; the order of the tick's events is not
LongStep(sc) ==
    \E w \in {step(World, sc)} :
        /\ Physics(w)
        /\ events' = << >>
        /\ formed' = w.formed
        /\ broken' = w.broken
        /\ sinceFormed' =
              [k \in DOMAIN sinceFormed \cup FormedKeys(w.formed) |->
                  IF k \in FormedKeys(w.formed) THEN 0
                  ELSE Min(sinceFormed[k] + 1, tangleCooldownFrames + 1)]
        /\ lastGap' =
              [k \in DOMAIN lastGap \cup (FormedKeys(w.formed) \cap DOMAIN sinceFormed) |->
                  IF k \in FormedKeys(w.formed) /\ k \in DOMAIN sinceFormed
                  THEN sinceFormed[k] + 1
                  ELSE lastGap[k]]
        /\ ticks' = Min(ticks + 1, MaxPullTicks)
        /\ UNCHANGED <<history, scene, trackerVars, op, out, ropeVars, worldVars>>

TickLong == \E sc \in LongScenes(LightStretch) : LongStep(sc)

TickPull ==
    /\ ticks < MaxPullTicks
    /\ \E sc \in LongScenes(HeavyStretch) : LongStep(sc)

\* A tick in the life of a tangle; the ages of the tangles are followed
KnotStep(sc, dt) ==
    \E w \in {step(World, sc)} :
        /\ Physics(w)
        /\ events' = << >>
        /\ formed' = w.formed
        /\ broken' = w.broken
        /\ ticks' = ticks + 1
        /\ scene' = sc
        /\ tangleAges' = stepAges(World, tangleAges, sc, dt, w)
        /\ UNCHANGED <<history, sinceFormed, lastGap, trackerVars, op, out, ropeVars,
                       crossing, contact, ropes>>

\* Frames of either length, MaxKnotTicks ticks at most
TickKnot ==
    /\ ticks < MaxKnotTicks
    /\ \E sc \in KnotScenes, dt \in DeltaTimes : KnotStep(sc, dt)

\* Frames of one length, MaxClampTicks ticks at most: long enough for a wrap
\* angle to decay from its least initial value to the floor
TickClamp ==
    /\ ticks < MaxClampTicks
    /\ \E sc \in KnotScenes : KnotStep(sc, FrameTime)

\* A tick of the crossing pipeline in which the tip of rope 0 is at one of
\* ContactOffsets from the last segment of rope 1: on it, closer than the
\* collision radius on either side, or clear of it
ContactOffsets == {0, 500, -1000, 4000}

TickFree ==
    \E sc \in CrossScenes, a \in ContactOffsets : \E w \in {step(World, sc)} :
        LET c == Contact(Particle(0, NumSegments), Particle(1, LastSeg),
                         Particle(1, NumSegments), a, 0, 0)
        IN  /\ Physics(w)
            /\ Logs(w)
            /\ scene' = sc
            /\ contact' = [before |-> c,
                           after |-> CollisionIterations(tangleConstraints, c, 0)]
            /\ UNCHANGED <<history, sinceFormed, lastGap, ticks, trackerVars, op, out,
                           ropeVars, tangleAges, crossing, ropes>>

\* A world that ropes are removed from and added to.  The sixth segments of
\* two ropes cross at a right angle, both ropes stretched, or not; a rope
\* that was removed is added again behind the ropes of lower id.
WorldKeys == {k \in Keys : k[3] = SKIP_SEGMENTS_FROM_START /\ k[4] = SKIP_SEGMENTS_FROM_START}

WorldScenes ==
    {Scene(X, 1000, SKIP_SEGMENTS_FROM_START, 20000, 5000, 0, 0, sp) :
        X \in SUBSET WorldKeys, sp \in SepVals}

InWorld(rope) == \E i \in 1 .. Len(ropes) : ropes[i] = rope

\* The intersections of the ropes that are in the world
Present(sc) == [sc EXCEPT !.X = {k \in @ : InWorld(k[1]) /\ InWorld(k[2])}]

TickWorld ==
    /\ ticks < MaxWorldTicks
    /\ \E sc \in WorldScenes : \E w \in {stepOf(World, ropes, Present(sc))} :
        /\ Physics(w)
        /\ Logs(w)
        /\ ticks' = ticks + 1
        /\ op' = "step"
        /\ UNCHANGED <<history, sinceFormed, lastGap, scene, trackerVars, out, ropeVars,
                       tangleAges, crossing, contact, ropes>>

AddRope ==
    \E rope \in Ropes :
        /\ ~InWorld(rope)
        /\ \A i \in 1 .. Len(ropes) : ropes[i] < rope
        /\ ropes' = addRope(ropes, rope)
        /\ op' = "addRope"
        /\ UNCHANGED <<physicsVars, trackerVars, out, ropeVars, tangleAges, crossing,
                       contact>>

RemoveRope ==
    \E rope \in Ropes :
        /\ ropes' = removeRope(ropes, rope)
        /\ op' = "removeRope"
        /\ UNCHANGED <<physicsVars, trackerVars, out, ropeVars, tangleAges, crossing,
                       contact>>

WorldNext == TickWorld \/ AddRope \/ RemoveRope

\* A new intersection of segment segA of one leash and segment segB of
\* another, at the parameters t1 and t2 segmentIntersection returns, the dogs
\* being at the heights dogHeightA and dogHeightB (bounceAmplitude is 5)
DogHeights == {0, 2000, 4500, 5000}
Parameters == {0, 250, 500, 1000}

ReportSign ==
    \E segA \in ActiveSegs, segB \in ActiveSegs,
       dogHeightA \in DogHeights, dogHeightB \in DogHeights,
       t1 \in Parameters, t2 \in Parameters :
        /\ crossing' = Report(segA, dogHeightA, t1, segB, dogHeightB, t2,
                              crossingSign(segA, dogHeightA, t1, segB, dogHeightB, t2))
        /\ UNCHANGED <<physicsVars, trackerVars, op, out, ropeVars, tangleAges,
                       contact, ropes>>

(***************************************************************************)
(* Calls on the BraidTracker and on its live word                          *)
(***************************************************************************)
\* Rope ids a call may carry: the three registered ropes and rope 3, which
\* no one registered
CallPairs ==
    {<<0, 1>>, <<1, 0>>, <<1, 2>>, <<2, 1>>, <<0, 2>>, <<2, 0>>, <<0, 3>>, <<3, 1>>,
     <<1, 1>>, <<1, ExtraRope>>, <<ExtraRope, 2>>}
WordPairs == {<<0, 1>>, <<1, 2>>}
Signs == {1, -1}
Delays == {100, crossingCooldown}

\* recordCrossing(ropeIdA, ropeIdB, sign), dt milliseconds after the last call
Record(ropeIdA, ropeIdB, sign, dt) ==
    \E r \in {recordCrossing(Tracker, ropeIdA, ropeIdB, sign, now + dt)} :
        /\ now' = now + dt
        /\ braidWord' = r.tracker.braidWord
        /\ eventLog' = r.tracker.eventLog
        /\ lastCrossing' = r.tracker.lastCrossing
        /\ op' = "recordCrossing"
        /\ out' = Out(ropeIdA, ropeIdB, sign, braidWord, r.tracker.braidWord, r.ret, 0)
        /\ UNCHANGED <<physicsVars, ropeVars, worldVars>>

TrackCrossing ==
    /\ Len(braidWord) < MaxLog
    /\ \E pair \in CallPairs, sign \in Signs, dt \in Delays :
          /\ now + dt <= MaxNow
          /\ Record(pair[1], pair[2], sign, dt)

WordCrossing ==
    /\ Len(braidWord) < MaxWord
    /\ \E pair \in WordPairs, sign \in Signs :
          Record(pair[1], pair[2], sign, crossingCooldown)

\* A call that works on the live word as the receiver (reference 1 of the
\* call's store) and hands back the word with reference ref
WordCall(name, store, ref, ret, rounds) ==
    /\ braidWord' = store.words[1]
    /\ op' = name
    /\ out' = Out(0, 0, 0, braidWord, store.words[ref], ret, rounds)
    /\ UNCHANGED <<eventLog, lastCrossing, now, physicsVars, ropeVars, worldVars>>

GetStats ==
    \E r \in {getStats(NewStore(braidWord))} :
        WordCall("getStats", r.store, r.ref, TRUE, r.rounds)

IsTangled ==
    \E r \in {isTangled(NewStore(braidWord))} :
        WordCall("isTangled", r.store, r.ref, Len(r.store.words[r.ref]) # 0, r.rounds)

GetUntangleSequence ==
    \E r \in {getUntangleSequence(NewStore(braidWord))} :
        WordCall("getUntangleSequence", r.store, r.ref, TRUE, 0)

Reduce ==
    \E r \in {reduce(NewStore(braidWord), 1)} :
        WordCall("reduce", r.store, r.ref, TRUE, r.rounds)

Simplify ==
    \E r \in {simplify(NewStore(braidWord), 1)} :
        WordCall("simplify", r.store, r.ref, TRUE, 0)

\* applyYangBaxter on a word built from the live word's crossings
YangBaxter ==
    \E c \in {NewWord(NewStore(braidWord), braidWord)} :
        \E r \in {applyYangBaxter(c.store, c.ref)} :
            WordCall("applyYangBaxter", r.store, c.ref, r.ret, 0)

ResetTracker ==
    /\ op # "new"
    /\ braidWord' = reset(Tracker).braidWord
    /\ eventLog' = reset(Tracker).eventLog
    /\ lastCrossing' = reset(Tracker).lastCrossing
    /\ op' = "reset"
    /\ out' = Out(0, 0, 0, braidWord, << >>, TRUE, 0)
    /\ UNCHANGED <<now, physicsVars, ropeVars, worldVars>>

TrackerNext ==
    \/ TrackCrossing \/ GetStats \/ IsTangled \/ GetUntangleSequence
    \/ Reduce \/ Simplify \/ ResetTracker

WordNext == WordCrossing \/ GetStats \/ Reduce \/ Simplify \/ YangBaxter

(***************************************************************************)
(* Calls on one rope and the world's step on it                            *)
(***************************************************************************)
StartTargets == {0, SegmentLength}
EndTargets == {(RopeSegments + 1) * SegmentLength, MaxPos - SegmentLength}
Factors == {1000, 2000}
NoPull == [j |-> 0, amount |-> 0]
Pulls ==
    {[j |-> j, amount |-> a] : j \in RopeParticles,
                               a \in {0 - 3 * SegmentLength, 3 * SegmentLength}}
\* What a step meets: the component of gravity along the line, or a tangle
\* pulling at one particle
StepScenes ==
    {[gravity |-> g, pull |-> NoPull] : g \in {0, 2}}
        \cup {[gravity |-> 0, pull |-> pull] : pull \in Pulls}

\* A call on the rope that leaves the particles ps; the calls are counted
RopeCall(name, ps) ==
    /\ ropeCalls < MaxRopeCalls
    /\ ropeCalls' = ropeCalls + 1
    /\ particles' = ps
    /\ op' = name
    /\ UNCHANGED <<physicsVars, trackerVars, out, worldVars>>

PinStart ==
    /\ RopeCall("pinStart", [particles EXCEPT ![StartParticle] = pin(@)])
    /\ UNCHANGED maxStretchFactor

PinEnd ==
    /\ RopeCall("pinEnd", [particles EXCEPT ![EndParticle] = pin(@)])
    /\ UNCHANGED maxStretchFactor

MoveStart ==
    \E x \in StartTargets :
        /\ RopeCall("moveStart", [particles EXCEPT ![StartParticle] = teleport(@, x)])
        /\ UNCHANGED maxStretchFactor

MoveEnd ==
    \E x \in EndTargets :
        /\ RopeCall("moveEnd", [particles EXCEPT ![EndParticle] = teleport(@, x)])
        /\ UNCHANGED maxStretchFactor

EnforceMaxLength ==
    \E f \in Factors :
        /\ RopeCall("enforceMaxLength", enforceMaxLength(particles, f))
        /\ maxStretchFactor' = f

StepRope ==
    /\ \E sc \in StepScenes :
          \E ps \in {stepRope(particles, sc.gravity, sc.pull)} : RopeCall("step", ps)
    /\ UNCHANGED maxStretchFactor

RopeNext ==
    \/ PinStart \/ PinEnd \/ MoveStart \/ MoveEnd
    \/ EnforceMaxLength \/ StepRope

SpecCross == Init /\ [][TickCross]_vars
SpecTangle == Init /\ [][TickTangle]_vars
SpecAngle == Init /\ [][TickAngle]_vars
SpecLong == Init /\ [][TickLong \/ TickPull]_vars
SpecTracker == Init /\ [][TrackerNext]_vars
SpecWord == Init /\ [][WordNext]_vars
SpecRope == Init /\ [][RopeNext]_vars
SpecKnot == Init /\ [][TickKnot]_vars
SpecClamp == Init /\ [][TickClamp]_vars
SpecSign == Init /\ [][ReportSign]_vars
SpecFree == Init /\ [][TickFree]_vars
SpecWorld == Init /\ [][WorldNext]_vars

Next ==
    \/ TickCross \/ TickTangle \/ TickAngle \/ TickLong \/ TickPull \/ TickKnot \/ TickClamp \/ ReportSign \/ TickFree
    \/ WorldNext
    \/ TrackerNext \/ WordNext \/ RopeNext
Spec == Init /\ [][Next]_vars

(***************************************************************************)
(* Properties                                                              *)
(***************************************************************************)
EventKeys(type) ==
    {events[i].key : i \in {j \in 1 .. Len(events) : events[j].type = type}}

EventTypes == {events[i].type : i \in 1 .. Len(events)}

\* The pass of step an event belongs to
Rank(type) ==
    CASE type = "commit" -> 0
      [] type = "broken" -> 1
      [] type \in {"formed", "tangled"} -> 2
      [] OTHER -> 3

SamePair(a, b) == a.particleA = b.particleA /\ a.particleB = b.particleB

FormedPairs(log) == {<<log[i].particleA, log[i].particleB>> : i \in 1 .. Len(log)}

\* C1, as the specification states it: a key that intersected in the
\* previous tick and intersects in this tick too is not passed to the
\* crossing callback in this tick.
C1_NoRepeatWhileIntersecting ==
    \A k \in lastX \cap prevX : k \notin EventKeys("crossing")

\* C2: a key that intersects in this tick and did not intersect in the
\* previous tick is passed to the crossing callback in this tick, whether or
\* not it intersected in an earlier tick.
C2_RecrossingReported ==
    \A k \in lastX \ prevX : k \in EventKeys("crossing")

\* C2's case: a key intersects, separates for a tick, intersects again and is
\* reported again.
C2_Witness ==
    \E k \in (lastX \cap prev2X) \ prevX : k \in EventKeys("crossing")

\* C3, as the specification states it: every crossing PhysicsWorld reports
\* for a key that did not intersect in the previous tick, a re-crossing
\* included, reaches BraidTracker.recordCrossing.
C3_EveryNewCrossingRecorded ==
    \A k \in EventKeys("crossing") \ prevX : k \in EventKeys("record")

\* C4, as the specification states it: never more than maxTanglesPerRopePair
\* tangles between two ropes, never more than maxTotalTangles tangles.
C4_TangleCaps ==
    /\ Len(tangleConstraints) <= maxTotalTangles
    /\ \A p \in 1 .. Len(RopePairs) :
          countTanglesBetweenRopes(tangleConstraints, RopePairs[p][1], RopePairs[p][2])
              <= maxTanglesPerRopePair

\* C5: no two active tangles join the same unordered pair of particles.
C5_OneTanglePerParticlePair ==
    \A i, j \in 1 .. Len(tangleConstraints) :
        i < j => {tangleConstraints[i].particleA, tangleConstraints[i].particleB}
                 # {tangleConstraints[j].particleA, tangleConstraints[j].particleB}

\* C5's case: every tangle of the world was formed in this tick's scan, and
\* the scan passed over another intersecting segment pair because its closest
\* particles were tangled already.
C5_Witness ==
    /\ Len(formed) >= 1
    /\ Len(tangleConstraints) = Len(formed)
    /\ "tangled" \in EventTypes

\* C6: a tangle that is locked before a tick and is still in the world after
\* it (not removed, so not formed afresh in the tick) is locked after it.
C6_LockIsOneWay ==
    [][\A i \in 1 .. Len(tangleConstraints) :
          \A j \in 1 .. Len(tangleConstraints') :
              (/\ tangleConstraints[i].isLocked
               /\ SamePair(tangleConstraints[i], tangleConstraints'[j])
               /\ <<tangleConstraints'[j].particleA, tangleConstraints'[j].particleB>>
                      \notin FormedPairs(formed'))
              => tangleConstraints'[j].isLocked]_vars

\* C6's case: a locked tangle that has since gone slack (its tension is back
\* to zero and its wrap angle has decayed below pi/3) and is locked still.
C6_Witness ==
    \E i \in 1 .. Len(tangleConstraints) :
        /\ tangleConstraints[i].isLocked
        /\ tangleConstraints[i].tension = 0
        /\ tangleConstraints[i].wrapAngle < SlackWrapLimit

\* C7: within one step the positions are committed first, every tangle-broken
\* callback comes before the formation scan and every tangle-formed callback
\* before any crossing callback; a tangle broken in the tick is out of the
\* world unless the scan of the same tick formed it again.
C7_EventOrder ==
    /\ events # << >> => events[1].type = "commit"
    /\ \A i, j \in 1 .. Len(events) :
          i < j => Rank(events[i].type) <= Rank(events[j].type)
    /\ \A b \in 1 .. Len(broken) : \A i \in 1 .. Len(tangleConstraints) :
          SamePair(broken[b].tangle, tangleConstraints[i])
          => <<tangleConstraints[i].particleA, tangleConstraints[i].particleB>>
                 \in FormedPairs(formed)

\* C7's case: one tick in which a tangle broke, a tangle formed and a
\* crossing was reported.
C7_Witness == {"commit", "broken", "formed", "crossing"} \subseteq EventTypes

SlackRule(old, new) ==
    new.slackFrames =
        IF ~new.isLocked /\ new.wrapAngle < SlackWrapLimit /\ new.tension < SlackTension
        THEN old.slackFrames + 1
        ELSE 0

\* C9: each tick the slack counter of a tangle goes up by one if the tangle
\* is unlocked with wrapAngle < pi/3 and tension < 0.3, and back to 0 if not;
\* the tangle is broken by the slack rule exactly when the counter exceeds 90,
\* and a tangle broken otherwise is farther apart than its break distance.
C9_SlackRule ==
    [][\A i \in 1 .. Len(tangleConstraints) :
          /\ \A j \in 1 .. Len(tangleConstraints') :
                (/\ SamePair(tangleConstraints[i], tangleConstraints'[j])
                 /\ <<tangleConstraints'[j].particleA, tangleConstraints'[j].particleB>>
                        \notin FormedPairs(formed'))
                => /\ SlackRule(tangleConstraints[i], tangleConstraints'[j])
                   /\ tangleConstraints'[j].slackFrames <= SlackLimit
          /\ \A b \in 1 .. Len(broken') :
                SamePair(tangleConstraints[i], broken'[b].tangle)
                => /\ SlackRule(tangleConstraints[i], broken'[b].tangle)
                   /\ broken'[b].slack <=> broken'[b].tangle.slackFrames > SlackLimit
                   /\ ~broken'[b].slack => broken'[b].distance > broken'[b].breakDistance
      ]_vars

\* C9's case: a tangle whose particles are within its break distance is
\* broken by the slack rule.
C9_Witness ==
    \E b \in 1 .. Len(broken) :
        /\ broken[b].slack
        /\ broken[b].distance <= broken[b].breakDistance

\* C10, as the code has it: a key on cooldown was formed less than
\* tangleCooldownFrames ticks ago and has tangleCooldownFrames minus that many
\* frames remaining, so the count starts at tangleCooldownFrames and goes down
\* by one per tick; the key forms no tangle in the tangleCooldownFrames - 1
\* ticks that follow a formation.
C10_Cooldown ==
    /\ \A k \in DOMAIN sinceFormed :
          k \in DOMAIN tangleCooldowns <=> sinceFormed[k] < tangleCooldownFrames
    /\ \A k \in DOMAIN tangleCooldowns :
          /\ k \in DOMAIN sinceFormed
          /\ tangleCooldowns[k] = tangleCooldownFrames - sinceFormed[k]
    /\ \A k \in DOMAIN lastGap : lastGap[k] >= tangleCooldownFrames

\* C10's case: a key forms a tangle again in the tick its cooldown is deleted.
C10_Witness ==
    \E k \in DOMAIN lastGap :
        lastGap[k] = tangleCooldownFrames /\ k \in DOMAIN tangleCooldowns

\* C10, as the specification states it: a key forms no tangle in any of the
\* tangleCooldownFrames ticks that follow a formation.
C10_NoFormationFor120Ticks ==
    \A k \in DOMAIN lastGap : lastGap[k] > tangleCooldownFrames

(***************************************************************************)
(* The braid word and its tracker                                          *)
(***************************************************************************)
Queries == {"getStats", "isTangled", "getUntangleSequence", "reduce", "simplify"}

\* C11: the live braid word changes only through recordCrossing, which
\* appends exactly one crossing at the end when it returns an event and
\* nothing when it returns null, and through reset, which empties it;
\* getStats, isTangled, getUntangleSequence, reduce and simplify leave the
\* live word as it was, whatever they rewrite on their copy.
C11_LiveWordFrame ==
    [][/\ op' \in Queries => braidWord' = braidWord
       /\ op' = "recordCrossing" =>
              IF out'.ret
              THEN /\ Len(braidWord') = Len(braidWord) + 1
                   /\ SubSeq(braidWord', 1, Len(braidWord)) = braidWord
                   /\ braidWord'[Len(braidWord')].sign = out'.sign
              ELSE braidWord' = braidWord
       /\ op' = "reset" => braidWord' = << >>]_vars

\* A reduce whose copy was rewritten by the Yang-Baxter rule while the live
\* word kept its three crossings
C11_Witness ==
    /\ op = "reduce"
    /\ Len(braidWord) = MaxLog
    /\ braidWord = out.input
    /\ out.word # braidWord
    /\ Len(out.word) = Len(braidWord)

\* C12: recordCrossing called with a rope id that was never registered, as
\* either argument, returns null and leaves braidWord, eventLog and
\* lastCrossing unchanged, so that every later call is answered as if the
\* unknown call had not happened.
C12_UnknownRopeIgnored ==
    [][(op' = "recordCrossing" /\ (out'.ropeA \notin RegisteredRopes \/ out'.ropeB \notin RegisteredRopes))
          => /\ ~out'.ret
             /\ braidWord' = braidWord
             /\ eventLog' = eventLog
             /\ lastCrossing' = lastCrossing
             /\ \A pair \in CallPairs, sign \in Signs, dt \in Delays :
                    recordCrossing(Tracker', pair[1], pair[2], sign, now' + dt)
                        = recordCrossing(Tracker, pair[1], pair[2], sign, now' + dt)]_vars

\* An unknown rope id given to a tracker that has recorded a crossing, as the
\* second argument
C12_Witness ==
    /\ op = "recordCrossing"
    /\ out.ropeB \notin RegisteredRopes
    /\ ~out.ret
    /\ Len(braidWord) >= 1
    /\ lastCrossing # NoCrossing

\* The call recordCrossing(ropeIdA, ropeIdB, ...) comes less than
\* crossingCooldown after the last recorded crossing
Recent(clock) ==
    lastCrossing # NoCrossing /\ clock - lastCrossing.time < crossingCooldown

SameAsLast(ropeIdA, ropeIdB) ==
    lastCrossing.ropeA = ropeIdA /\ lastCrossing.ropeB = ropeIdB

\* C13: a recordCrossing(a, b, sign) made less than crossingCooldown (200 ms)
\* after the last recorded crossing and with the rope ids (a, b) of that
\* crossing returns null and changes neither the braid word, the event log
\* nor lastCrossing; a call for another rope pair, or one made at least
\* 200 ms after the last recorded crossing, is not suppressed: with two
\* registered ropes of a valid dog pair it is recorded.
C13_Debounce ==
    [][op' = "recordCrossing" =>
          /\ (Recent(now') /\ SameAsLast(out'.ropeA, out'.ropeB))
                => /\ ~out'.ret
                   /\ braidWord' = braidWord
                   /\ eventLog' = eventLog
                   /\ lastCrossing' = lastCrossing
          /\ (/\ ~(Recent(now') /\ SameAsLast(out'.ropeA, out'.ropeB))
              /\ out'.ropeA \in Ropes /\ out'.ropeB \in Ropes
              /\ out'.ropeA # out'.ropeB)
                => /\ out'.ret
                   /\ Len(braidWord') = Len(braidWord) + 1
                   /\ Len(eventLog') = Len(eventLog) + 1
                   /\ lastCrossing' = [time |-> now', ropeA |-> out'.ropeA,
                                       ropeB |-> out'.ropeB]]_vars

\* A suppressed call: same rope ids as the last recorded crossing, 100 ms
\* after it
C13_Witness ==
    /\ op = "recordCrossing"
    /\ ~out.ret
    /\ lastCrossing # NoCrossing
    /\ now - lastCrossing.time < crossingCooldown
    /\ out.ropeA = lastCrossing.ropeA /\ out.ropeB = lastCrossing.ropeB

\* One round of the loop of reduce on a sequence of crossings: simplify,
\* then one Yang-Baxter rewrite
OneRound(word) ==
    LET simplified == simplify(NewStore(word), 1)
    IN  YangBaxterScan(simplified.store.words[simplified.ref], 1).word

\* The number of the first round, counted from k, that leaves the length
\* unchanged
RECURSIVE FirstStableRound(_, _)
FirstStableRound(word, k) ==
    IF Len(OneRound(word)) = Len(word) \/ k >= maxIterations THEN k
    ELSE FirstStableRound(OneRound(word), k + 1)

FreelyReduced(word) ==
    \A i \in 1 .. (Len(word) - 1) : ~cancels(word[i], word[i + 1])

\* C15: the word returned by reduce, hence the one behind
\* getStats().simplifiedLength and isTangled(), is freely reduced: it holds
\* no two adjacent crossings with the same generator and opposite signs.
C15_ReduceIsFreelyReduced ==
    op \in {"reduce", "getStats", "isTangled"} => FreelyReduced(out.word)

\* The free reduction of a word: the leftmost adjacent cancelling pair is
\* deleted until none is left
RECURSIVE FreeReduction(_)
FreeReduction(word) ==
    IF FreelyReduced(word) THEN word
    ELSE LET i == CHOOSE k \in 1 .. (Len(word) - 1) :
                      /\ cancels(word[k], word[k + 1])
                      /\ \A j \in 1 .. (k - 1) : ~cancels(word[j], word[j + 1])
         IN  FreeReduction(SubSeq(word, 1, i - 1) \o SubSeq(word, i + 2, Len(word)))

\* C16: simplify returns the free reduction of the receiver: the result
\* comes from cancelling adjacent generator/inverse pairs only, pairs that
\* become adjacent after an earlier cancellation included, it holds no
\* adjacent cancelling pair, [s1, s1^-1, s2] gives [s2], and the receiver is
\* not modified.
C16_SimplifyIsFreeReduction ==
    op = "simplify" =>
        /\ out.word = FreeReduction(out.input)
        /\ FreelyReduced(out.word)
        /\ braidWord = out.input
        /\ out.input = <<Crossing(1, 1), Crossing(1, -1), Crossing(2, 1)>>
              => out.word = <<Crossing(2, 1)>>

\* simplify on [s1, s1^-1, s2]
C16_Witness ==
    /\ op = "simplify"
    /\ out.input = <<Crossing(1, 1), Crossing(1, -1), Crossing(2, 1)>>
    /\ out.word = <<Crossing(2, 1)>>
    /\ braidWord = out.input

\* The indices at which three consecutive crossings have generators
\* (1, 2, 1) or (2, 1, 2) and one sign
Triples(word) ==
    {i \in 1 .. (Len(word) - 2) :
        /\ <<word[i].generator, word[i + 1].generator, word[i + 2].generator>>
              \in {<<1, 2, 1>>, <<2, 1, 2>>}
        /\ word[i].sign = word[i + 1].sign
        /\ word[i + 1].sign = word[i + 2].sign}

FirstTriple(word) ==
    CHOOSE i \in Triples(word) : \A j \in Triples(word) : i <= j

\* C17: applyYangBaxter rewrites the first same-sign triple (1, 2, 1) or
\* (2, 1, 2) of the receiver in place to (2, 1, 2) resp. (1, 2, 1), keeps the
\* signs and every other position and returns true; without such a triple
\* (mixed signs, fewer than three crossings) it returns false and the word
\* is unchanged.  The length is the same before and after.
C17_YangBaxterRewrite ==
    op = "applyYangBaxter" =>
        /\ Len(out.word) = Len(out.input)
        /\ IF Triples(out.input) = {}
           THEN ~out.ret /\ out.word = out.input
           ELSE /\ out.ret
                /\ \A k \in 1 .. Len(out.input) :
                       IF k \in FirstTriple(out.input) .. (FirstTriple(out.input) + 2)
                       THEN out.word[k] = Crossing(3 - out.input[k].generator,
                                                   out.input[k].sign)
                       ELSE out.word[k] = out.input[k]

\* A word with two matching triples, the second one not at the next index:
\* only the first is rewritten
C17_Witness ==
    /\ op = "applyYangBaxter"
    /\ out.ret
    /\ \E i, j \in Triples(out.input) : j > i + 1
    /\ FirstTriple(out.input) > 1

(***************************************************************************)
(* The rope                                                                *)
(***************************************************************************)
Pinned(i) == particles[i].inverseMass = 0

\* C18: a pinned particle (inverseMass = 0) is never moved by the
\* simulation: applyForce accumulates nothing on it, integrate sets its
\* predicted position to its position, and over a whole step (all solver
\* passes, strict and maximal length enforcement, the commit) its position
\* stays and its predicted position is its position; only teleport, that is
\* moveStart and moveEnd, changes it.
C18_PinnedNeverMoved ==
    [][\A i \in RopeParticles : Pinned(i) =>
          /\ \A force \in {-2, 2} : applyForce(particles[i], force) = particles[i]
          /\ integrate(particles[i]).predicted = particles[i].position
          /\ integrate(particles[i]).position = particles[i].position
          /\ op' = "step" =>
                 /\ particles'[i].position = particles[i].position
                 /\ particles'[i].predicted = particles[i].position
                 /\ particles[i].predicted = particles[i].position
                        => particles'[i] = particles[i]
          /\ op' \in {"enforceMaxLength", "pinStart", "pinEnd"} =>
                 particles'[i] = particles[i]
          /\ (op' = "moveStart" /\ i # StartParticle) => particles'[i] = particles[i]
          /\ (op' = "moveEnd" /\ i # EndParticle) => particles'[i] = particles[i]]_vars

\* After a step: the start is pinned where moveStart put it while both other
\* particles were moved by the step
C18_Witness ==
    /\ op = "step"
    /\ Pinned(StartParticle)
    /\ particles[StartParticle].position = 0
    /\ particles[StartParticle].predicted = 0
    /\ \A i \in RopeParticles \ {StartParticle} :
           particles[i].position # particles[i].prevPosition

\* What integer rounding may add to a length: one unit per segment
LengthEpsilon == RopeSegments

\* C19: after every step the length of a rope with at least one pinned end,
\* measured on the committed positions, does not exceed the rope's rest
\* length beyond a numerical epsilon, ropes with both ends pinned and moved
\* from outside included.
C19_HardLengthLimit ==
    (op = "step" /\ (Pinned(StartParticle) \/ Pinned(EndParticle)))
        => getCurrentLength(particles) <= getRestLength + LengthEpsilon

\* C20: enforceMaxLength(factor) is a no-op when neither the start nor the
\* end particle is pinned, even if the predicted length exceeds factor times
\* the rest length, and whenever the predicted length is at most factor
\* times the rest length.
C20_EnforceMaxLengthNoOp ==
    [][(/\ op' = "enforceMaxLength"
        /\ \/ ~Pinned(StartParticle) /\ ~Pinned(EndParticle)
           \/ getPredictedLength(particles) * 1000
                  <= maxStretchFactor' * getRestLength)
          => particles' = particles]_vars

\* enforceMaxLength(2.0) has returned on a rope with no pinned end whose
\* predicted length is more than twice its rest length
C20_Witness ==
    /\ op = "enforceMaxLength"
    /\ maxStretchFactor = 2000
    /\ ~Pinned(StartParticle) /\ ~Pinned(EndParticle)
    /\ getPredictedLength(particles) > 2 * getRestLength

(***************************************************************************)
(* Generators, untangling, writhe                                          *)
(***************************************************************************)
\* The generator the documentation gives a set of two dog slots, 0 for none
SlotGenerator(slots) ==
    IF slots = {0, 1} THEN 1
    ELSE IF slots = {1, 2} THEN 2
    ELSE IF slots = {0, 2} THEN 1
    ELSE 0

\* The dog slot a rope was registered at
SlotOf(ropeId) == IF ropeId = ExtraRope THEN ExtraSlot ELSE ropeId

\* C23: recordCrossing maps the slots of its two ropes, in either argument
\* order, to a generator: {0,1} gives 1, {1,2} gives 2, {0,2} gives 1; any
\* other pair of slots (equal slots, a slot outside 0..2) returns null and
\* appends nothing.  Every crossing of the live word has generator 1 or 2
\* and carries the sign the caller passed.
C23_GeneratorMapping ==
    [][(/\ op' = "recordCrossing"
        /\ out'.ropeA \in RegisteredRopes /\ out'.ropeB \in RegisteredRopes
        /\ ~(Recent(now') /\ SameAsLast(out'.ropeA, out'.ropeB)))
          => LET g == SlotGenerator({SlotOf(out'.ropeA), SlotOf(out'.ropeB)})
             IN  /\ g = 0 => (~out'.ret /\ braidWord' = braidWord)
                 /\ g # 0 => /\ out'.ret
                             /\ braidWord' = Append(braidWord, Crossing(g, out'.sign))
                 /\ \A i \in 1 .. Len(braidWord') :
                        braidWord'[i].generator \in {1, 2}]_vars

\* Ropes 2 and 0 given in this order and recorded with generator 1 after a
\* crossing of ropes 2 and 1 (generator 2)
C23_Witness ==
    /\ op = "recordCrossing"
    /\ out.ret
    /\ out.ropeA = 2 /\ out.ropeB = 0
    /\ Len(braidWord) >= 2
    /\ braidWord[Len(braidWord)] = Crossing(1, out.sign)
    /\ braidWord[Len(braidWord) - 1].generator = 2

\* The word reduce returns for a sequence of crossings
Reduced(word) ==
    LET r == reduce(NewStore(word), 1)
    IN  r.store.words[r.ref]

\* C25: getUntangleSequence returns the moves that untangle: the live word
\* followed by the crossings of getUntangleSequence() reduces to the empty
\* word, so that isTangled() is then false.
C25_UntangleSequenceUntangles ==
    op = "getUntangleSequence" => Reduced(out.input \o out.word) = << >>

\* BraidWord.writhe: the sum of the signs
RECURSIVE writhe(_)
writhe(word) ==
    IF word = << >> THEN 0 ELSE Head(word).sign + writhe(Tail(word))

\* C30: every rewrite keeps the writhe: the results of simplify,
\* applyYangBaxter and reduce have the writhe of the word they were given,
\* and a length of the same parity; so the writhe getStats takes from the
\* live word is the writhe of the reduced word it reports.
C30_WrithePreserved ==
    /\ op \in {"simplify", "applyYangBaxter", "reduce", "getStats"} =>
           /\ writhe(out.word) = writhe(out.input)
           /\ (Len(out.input) - Len(out.word)) % 2 = 0
    /\ op = "getStats" => writhe(braidWord) = writhe(out.word)

\* getStats on a word with writhe other than 0 that reduce has shortened
C30_Witness ==
    /\ op = "getStats"
    /\ Len(out.word) < Len(braidWord)
    /\ Len(out.word) > 0
    /\ writhe(braidWord) # 0

(***************************************************************************)
(* Locked tangles                                                          *)
(***************************************************************************)
\* The break distance of a locked tangle as shouldBreak computes it
LockedBreakDistance(t) ==
    (maxDistance * Min(getCapstanFriction(t), MaxCapstan)) \div 1000

\* C27: a tangle that is locked before a tick either is in tangleConstraints
\* after it, locked and with its slack counter at 0, or was broken in the
\* tick by distance: not by the slack rule, and with its two particles
\* farther apart than maxDistance * min(capstanFriction, 3).
C27_LockedLeavesOnlyByDistance ==
    [][\A i \in 1 .. Len(tangleConstraints) :
          tangleConstraints[i].isLocked =>
              /\ \A b \in 1 .. Len(broken') :
                    SamePair(tangleConstraints[i], broken'[b].tangle)
                    => /\ ~broken'[b].slack
                       /\ broken'[b].tangle.slackFrames = 0
                       /\ broken'[b].breakDistance = LockedBreakDistance(broken'[b].tangle)
                       /\ broken'[b].distance > broken'[b].breakDistance
              /\ \/ \E b \in 1 .. Len(broken') :
                        SamePair(tangleConstraints[i], broken'[b].tangle)
                 \/ \E j \in 1 .. Len(tangleConstraints') :
                        /\ SamePair(tangleConstraints[i], tangleConstraints'[j])
                        /\ tangleConstraints'[j].isLocked
                        /\ tangleConstraints'[j].slackFrames = 0
      ]_vars

\* C27's case: a locked tangle formed more than 90 ticks ago whose wrap angle
\* has decayed to the floor and whose tension is below 0.3
C27_Witness ==
    \E i \in 1 .. Len(tangleConstraints) :
        LET t == tangleConstraints[i]
            key == Key(t.ropeA, t.ropeB, SKIP_SEGMENTS_FROM_START, SKIP_SEGMENTS_FROM_START)
        IN  /\ t.isLocked
            /\ t.tension < SlackTension
            /\ t.wrapAngle = MinWrapFloor
            /\ t.slackFrames = 0
            /\ key \in DOMAIN sinceFormed
            /\ sinceFormed[key] > SlackLimit

\* C28: the break distance of a locked tangle is at least the break distance
\* of an unlocked one, 1.5 * maxDistance, and at most 3 * maxDistance.
C28_LockedBreaksLater ==
    \A i \in 1 .. Len(tangleConstraints) :
        tangleConstraints[i].isLocked =>
            /\ BreakDistance(tangleConstraints[i]) >= (maxDistance * 3) \div 2
            /\ BreakDistance(tangleConstraints[i]) <= maxDistance * 3

(***************************************************************************)
(* The life of a tangle                                                    *)
(***************************************************************************)
\* The ranges the constructor and solve keep restDistance and wrapAngle in
Clamped(t) ==
    /\ minDistance <= t.restDistance /\ t.restDistance <= maxDistance
    /\ MinWrapFloor <= t.wrapAngle /\ t.wrapAngle <= maxWrapAngle

\* C21: every tangle in the world after a tick, formed in it or before, has
\* minDistance <= restDistance <= maxDistance and
\* pi/6 <= wrapAngle <= 2 * pi, and so has every tangle after each of the
\* solve() calls of the solver loop of the tick.
C21_TangleClamped ==
    [][/\ \A j \in 1 .. Len(tangleConstraints') : Clamped(tangleConstraints'[j])
       /\ \A i \in 1 .. Len(tangleConstraints) : \A k \in 0 .. solverIterations :
              Clamped(SolveIterations(tangleConstraints[i], k, scene'))]_vars

\* C21's case: a heave has driven a tangle against both clamps, the wrap
\* angle at 2 * pi and the rest distance at minDistance
C21_Witness ==
    /\ scene.stretch = HeaveStretch
    /\ \E i \in 1 .. Len(tangleConstraints) :
           /\ tangleConstraints[i].isLocked
           /\ tangleConstraints[i].wrapAngle = maxWrapAngle
           /\ tangleConstraints[i].restDistance = minDistance

\* A run in which a wrap angle has decayed to the floor pi/6
C21_FloorReached ==
    \E i \in 1 .. Len(tangleConstraints) :
        tangleConstraints[i].wrapAngle = MinWrapFloor

\* C26: the age of a tangle is the simulated time since its formation, the
\* sum of the dt of the steps it has been through.
C26_AgeIsElapsedTime ==
    /\ Len(tangleAges) = Len(tangleConstraints)
    /\ \A i \in 1 .. Len(tangleAges) : tangleAges[i].age = tangleAges[i].elapsed

(***************************************************************************)
(* Over and under                                                          *)
(***************************************************************************)
\* C24: the sign passed to the crossing callback is +1 exactly when the
\* height of rope A interpolated at t1 between the two particles of its
\* segment is greater than the height of rope B interpolated at t2, and -1
\* otherwise, for every t1 and t2 from 0 to 1.
C24_SignIsHigherRope ==
    crossing # NoReport =>
        crossing.sign =
            IF Interpolate(crossing.segA, crossing.dogHeightA, crossing.t1)
                   > Interpolate(crossing.segB, crossing.dogHeightB, crossing.t2)
            THEN 1 ELSE -1

(***************************************************************************)
(* Free crossing                                                           *)
(***************************************************************************)
\* C22: with allowFreeCrossing set, the collision passes of a step leave
\* the predicted positions of a particle and of the segment next to it as
\* they were, and the crossing detection of the same step passes every
\* intersection that is not in currentIntersections to the crossing callback.
C22_FreeCrossing ==
    [][/\ allowFreeCrossing
       /\ contact'.after = contact'.before
       /\ \A key \in ActiveX(scene') \ currentIntersections :
              \E n \in 1 .. Len(events') : events'[n] = Event("crossing", key)]_vars

\* C22's case: a particle inside the collision radius of the other rope's
\* segment in a tick in which a crossing is reported
C22_Witness ==
    /\ contact.before.a > MinPushDistance
    /\ contact.before.a < ropeCollisionRadius
    /\ contact.after = contact.before
    /\ \E n \in 1 .. Len(events) : events[n].type = "crossing"

(***************************************************************************)
(* Ropes of the world                                                      *)
(***************************************************************************)
\* C29: every tangle in tangleConstraints is between two different ropes
\* that are both in this.ropes, whatever addRope, removeRope and step calls
\* have been made.
C29_TanglesOfPresentRopes ==
    \A i \in 1 .. Len(tangleConstraints) :
        /\ tangleConstraints[i].ropeA # tangleConstraints[i].ropeB
        /\ InWorld(tangleConstraints[i].ropeA)
        /\ InWorld(tangleConstraints[i].ropeB)

\* A step has solved a tangle of a rope that is not in the world: the
\* tangle was pulled on before a removeRope and is slack after the step
C29_SolvedAfterRemoval ==
    /\ op = "step"
    /\ \E i \in 1 .. Len(tangleConstraints) :
           /\ ~InWorld(tangleConstraints[i].ropeB)
           /\ tangleConstraints[i].wrapAngle < HalfPi

====
